---- MODULE Spec2Model ----
(***************************************************************************)
(* LC-3 virtual machine and interactive debugger (src/lc3_debugger.py)     *)
(* and the two-pass assembler (src/assemble.py), with the encoding of a    *)
(* branch by the second assembler (src/lc3_assembler.py).                  *)
(*                                                                         *)
(* The virtual machine (class LC3VirtualMachine) is the record vm, with    *)
(* the fields of the Python object.  Its methods are operators from a      *)
(* machine record to a machine record (and a return value).  Four          *)
(* specifications:                                                         *)
(*   SpecVM  calls the methods of the machine one after the other, as a    *)
(*           single caller does;                                           *)
(*   Spec    is the debugger (class LC3Debugger): the front-end handlers   *)
(*           and the engine threads started by run_program, interleaved    *)
(*           at instruction boundaries;                                    *)
(*   SpecAsm is the assembler (class LC3Assembler) on instruction lines    *)
(*           and source files, with the machine executing the words it     *)
(*           assembles;                                                    *)
(*   SpecStep is the debugger with step_program cut between the fetch and  *)
(*           the execution of its instruction, as the engine thread can    *)
(*           run between the two.                                          *)
(*                                                                         *)
(* Representation.  A character is its code point (ord is then the         *)
(* projection of the representation); a Python string is the sequence of   *)
(* the code points of its characters.  The memory list of 65536 words is   *)
(* the function of its non-zero cells: a cell outside the domain holds 0.  *)
(* Python integers are unbounded, so a register or a cell holds whatever   *)
(* the code stores, masked only where the code masks.                      *)
(***************************************************************************)
EXTENDS Integers, Sequences, FiniteSets, Bags, TLC

(***************************************************************************)
(* Constants of LC3VirtualMachine.__init__                                 *)
(***************************************************************************)
MAX_MEMORY == 65536

R_R0 == 0
R_R7 == 7
R_PC == 8
R_COND == 9
R_COUNT == 10

BR == 0
ADD == 1
LD == 2
ST == 3
JSR == 4
AND == 5
LDR == 6
STR == 7
RTI == 8
NOT == 9
LDI == 10
STI == 11
JMP == 12
RES == 13
LEA == 14
TRAP == 15

FL_POS == 1
FL_ZERO == 2
FL_NEG == 4

TRAP_GETC == 32
TRAP_OUT == 33
TRAP_PUTS == 34
TRAP_IN == 35
TRAP_PUTSP == 36
TRAP_HALT == 37

MR_KBSR == 65024
MR_KBDR == 65026

(***************************************************************************)
(* Python's integer operators on the values the machine holds              *)
(***************************************************************************)
\* a & b for non-negative a, b
RECURSIVE BitAnd(_, _)
BitAnd(a, b) ==
    IF a = 0 \/ b = 0 THEN 0
    ELSE (a % 2) * (b % 2) + 2 * BitAnd(a \div 2, b \div 2)

\* a | b for non-negative a, b
RECURSIVE BitOr(_, _)
BitOr(a, b) ==
    IF a = 0 THEN b
    ELSE IF b = 0 THEN a
    ELSE (IF a % 2 = 1 \/ b % 2 = 1 THEN 1 ELSE 0) + 2 * BitOr(a \div 2, b \div 2)

\* x >> n
Shr(x, n) == x \div (2 ^ n)

\* x << n
Shl(x, n) == x * (2 ^ n)

\* x & 0xFFFF for any integer x (two's complement for a negative x)
Mask16(x) == x % 65536

\* (~x) & 0xFFFF for a non-negative x: ~x is -x-1
Not16(x) == Mask16((0 - x) - 1)

\* ord(c) of a character, chr(n) as a one-character string, "HALT\n"
ord(c) == c
chr(n) == <<n>>
HALT_TEXT == <<72, 65, 76, 84, 10>>

\* struct.unpack('>H', two bytes): big-endian
unpackH(hi, lo) == hi * 256 + lo

(***************************************************************************)
(* The memory list                                                         *)
(***************************************************************************)
ZeroMemory == [a \in {} |-> 0]

\* self.memory[a]
Mem(m, a) == IF a \in DOMAIN m THEN m[a] ELSE 0

\* self.memory[a] = val
MemSet(m, a, val) ==
    IF val = 0
    THEN [x \in (DOMAIN m) \ {a} |-> m[x]]
    ELSE [x \in (DOMAIN m) \cup {a} |-> IF x = a THEN val ELSE m[x]]

(***************************************************************************)
(* LC3VirtualMachine                                                       *)
(***************************************************************************)
\* reset variants: COND left at 0; the breakpoint set cleared as well
reset_no_cond(v) ==
    [v EXCEPT !.memory = ZeroMemory,
              !.reg = [r \in 0..(R_COUNT - 1) |-> IF r = R_PC THEN 12288 ELSE 0],
              !.running = FALSE,
              !.halted = FALSE,
              !.output_buffer = <<>>,
              !.input_buffer = <<>>,
              !.wait_for_input = FALSE]

reset_clears_breakpoints(v) ==
    [v EXCEPT !.memory = ZeroMemory,
              !.reg = [r \in 0..(R_COUNT - 1) |->
                          IF r = R_COND THEN FL_ZERO
                          ELSE IF r = R_PC THEN 12288 ELSE 0],
              !.running = FALSE,
              !.halted = FALSE,
              !.breakpoints = {},
              !.output_buffer = <<>>,
              !.input_buffer = <<>>,
              !.wait_for_input = FALSE]

\* reset(): breakpoints and step_mode are not assigned
reset(v) ==
    [v EXCEPT !.memory = ZeroMemory,
              !.reg = [r \in 0..(R_COUNT - 1) |->
                          IF r = R_COND THEN FL_ZERO
                          ELSE IF r = R_PC THEN 12288 ELSE 0],
              !.running = FALSE,
              !.halted = FALSE,
              !.output_buffer = <<>>,
              !.input_buffer = <<>>,
              !.wait_for_input = FALSE]

\* the object as __init__ leaves it
NewVM ==
    reset([memory |-> ZeroMemory,
           reg |-> [r \in 0..(R_COUNT - 1) |-> 0],
           running |-> FALSE,
           halted |-> FALSE,
           breakpoints |-> {},
           step_mode |-> FALSE,
           output_buffer |-> <<>>,
           input_buffer |-> <<>>,
           wait_for_input |-> FALSE])

\* sign_extend variant: the sign bit is not extended
sign_extend_no_fill(x, num_bits) == BitAnd(x, 65535)

sign_extend(x, num_bits) ==
    LET y == IF BitAnd(Shr(x, num_bits - 1), 1) # 0
             THEN BitOr(x, Shl(65535, num_bits))
             ELSE x
    IN  BitAnd(y, 65535)

\* update_flags variant: no test for zero
update_flags_no_zero(v, r) ==
    [v EXCEPT !.reg[R_COND] =
        IF Shr(v.reg[r], 15) # 0 THEN FL_NEG ELSE FL_POS]

update_flags(v, r) ==
    [v EXCEPT !.reg[R_COND] =
        IF v.reg[r] = 0 THEN FL_ZERO
        ELSE IF Shr(v.reg[r], 15) # 0 THEN FL_NEG
        ELSE FL_POS]

\* mem_read variant: pop() takes the newest character, not the oldest
mem_read_pop_last(v, address) ==
    LET a == Mask16(address)
        n == Len(v.input_buffer)
        v1 == IF a = MR_KBSR
              THEN IF v.input_buffer # <<>>
                   THEN [v EXCEPT
                           !.memory = MemSet(MemSet(@, MR_KBSR, Shl(1, 15)),
                                             MR_KBDR, ord(v.input_buffer[n])),
                           !.input_buffer = SubSeq(@, 1, n - 1)]
                   ELSE [v EXCEPT !.memory = MemSet(@, MR_KBSR, 0)]
              ELSE v
    IN  [vm |-> v1, val |-> Mem(v1.memory, a)]

\* mem_read: the machine after the read, and the value returned
mem_read(v, address) ==
    LET a == Mask16(address)
        v1 == IF a = MR_KBSR
              THEN IF v.input_buffer # <<>>
                   THEN [v EXCEPT
                           !.memory = MemSet(MemSet(@, MR_KBSR, Shl(1, 15)),
                                             MR_KBDR, ord(Head(v.input_buffer))),
                           !.input_buffer = Tail(@)]
                   ELSE [v EXCEPT !.memory = MemSet(@, MR_KBSR, 0)]
              ELSE v
    IN  [vm |-> v1, val |-> Mem(v1.memory, a)]

\* mem_write variant: the value is stored unmasked
mem_write_no_mask(v, address, val) ==
    [v EXCEPT !.memory = MemSet(@, Mask16(address), val)]

mem_write(v, address, val) ==
    [v EXCEPT !.memory = MemSet(@, Mask16(address), Mask16(val))]

\* load_words variant: the address is masked instead of the loop ending
RECURSIVE load_words_wrap(_, _, _, _, _)
load_words_wrap(m, origin, program_data, i, words) ==
    IF i >= words THEN m
    ELSE load_words_wrap(MemSet(m, Mask16(origin + i),
                                unpackH(program_data[2 * i + 1], program_data[2 * i + 2])),
                         origin, program_data, i + 1, words)

\* the loop of load_program: words i, i+1, ... of program_data
RECURSIVE load_words(_, _, _, _, _)
load_words(m, origin, program_data, i, words) ==
    IF i >= words \/ origin + i >= MAX_MEMORY THEN m
    ELSE load_words(MemSet(m, origin + i,
                           unpackH(program_data[2 * i + 1], program_data[2 * i + 2])),
                    origin, program_data, i + 1, words)

\* load_program(data): data is a sequence of bytes
load_program(v, data) ==
    IF Len(data) < 2 THEN [vm |-> v, ret |-> "False"]
    ELSE LET origin == unpackH(data[1], data[2])
             program_data == SubSeq(data, 3, Len(data))
             words == Len(program_data) \div 2
         IN  [vm |-> [v EXCEPT
                        !.memory = load_words(@, origin, program_data, 0, words),
                        !.reg[R_PC] = origin],
              ret |-> "True"]

(***************************************************************************)
(* The instructions.  Each operator is the machine after the instruction,  *)
(* called with PC already incremented.                                     *)
(***************************************************************************)
execute_br(v, instr) ==
    LET pc_offset == sign_extend(BitAnd(instr, 511), 9)
        condition_flag == BitAnd(Shr(instr, 9), 7)
    IN  IF BitAnd(v.reg[R_COND], condition_flag) # 0
        THEN [v EXCEPT !.reg[R_PC] = Mask16(@ + pc_offset)]
        ELSE v

execute_add(v, instr) ==
    LET r0 == BitAnd(Shr(instr, 9), 7)
        r1 == BitAnd(Shr(instr, 6), 7)
        imm_flag == BitAnd(Shr(instr, 5), 1)
        imm5 == sign_extend(BitAnd(instr, 31), 5)
        r2 == BitAnd(instr, 7)
        w == IF imm_flag # 0
             THEN [v EXCEPT !.reg[r0] = Mask16(v.reg[r1] + imm5)]
             ELSE [v EXCEPT !.reg[r0] = Mask16(v.reg[r1] + v.reg[r2])]
    IN  update_flags(w, r0)

execute_ld(v, instr) ==
    LET r0 == BitAnd(Shr(instr, 9), 7)
        pc_offset == sign_extend(BitAnd(instr, 511), 9)
        rd == mem_read(v, Mask16(v.reg[R_PC] + pc_offset))
    IN  update_flags([rd.vm EXCEPT !.reg[r0] = rd.val], r0)

execute_st(v, instr) ==
    LET r0 == BitAnd(Shr(instr, 9), 7)
        pc_offset == sign_extend(BitAnd(instr, 511), 9)
    IN  mem_write(v, Mask16(v.reg[R_PC] + pc_offset), v.reg[r0])

execute_jsr(v, instr) ==
    LET flag == BitAnd(Shr(instr, 11), 1)
        w == [v EXCEPT !.reg[R_R7] = v.reg[R_PC]]
        r1 == BitAnd(Shr(instr, 6), 7)
    IN  IF flag # 0
        THEN [w EXCEPT !.reg[R_PC] =
                 Mask16(w.reg[R_PC] + sign_extend(BitAnd(instr, 2047), 11))]
        ELSE [w EXCEPT !.reg[R_PC] = w.reg[r1]]

execute_and(v, instr) ==
    LET r0 == BitAnd(Shr(instr, 9), 7)
        r1 == BitAnd(Shr(instr, 6), 7)
        imm_flag == BitAnd(Shr(instr, 5), 1)
        imm5 == sign_extend(BitAnd(instr, 31), 5)
        r2 == BitAnd(instr, 7)
        w == IF imm_flag # 0
             THEN [v EXCEPT !.reg[r0] = Mask16(BitAnd(v.reg[r1], imm5))]
             ELSE [v EXCEPT !.reg[r0] = Mask16(BitAnd(v.reg[r1], v.reg[r2]))]
    IN  update_flags(w, r0)

execute_ldr(v, instr) ==
    LET r0 == BitAnd(Shr(instr, 9), 7)
        r1 == BitAnd(Shr(instr, 6), 7)
        offset == sign_extend(BitAnd(instr, 63), 6)
        rd == mem_read(v, Mask16(v.reg[r1] + offset))
    IN  update_flags([rd.vm EXCEPT !.reg[r0] = rd.val], r0)

execute_str(v, instr) ==
    LET r0 == BitAnd(Shr(instr, 9), 7)
        r1 == BitAnd(Shr(instr, 6), 7)
        offset == sign_extend(BitAnd(instr, 63), 6)
    IN  mem_write(v, Mask16(v.reg[r1] + offset), v.reg[r0])

execute_not(v, instr) ==
    LET r0 == BitAnd(Shr(instr, 9), 7)
        r1 == BitAnd(Shr(instr, 6), 7)
    IN  update_flags([v EXCEPT !.reg[r0] = Not16(v.reg[r1])], r0)

execute_ldi(v, instr) ==
    LET r0 == BitAnd(Shr(instr, 9), 7)
        pc_offset == sign_extend(BitAnd(instr, 511), 9)
        addr == mem_read(v, Mask16(v.reg[R_PC] + pc_offset))
        rd == mem_read(addr.vm, addr.val)
    IN  update_flags([rd.vm EXCEPT !.reg[r0] = rd.val], r0)

\* execute_sti variant: the store goes to the pointer location itself
execute_sti_direct(v, instr) ==
    LET r0 == BitAnd(Shr(instr, 9), 7)
        pc_offset == sign_extend(BitAnd(instr, 511), 9)
    IN  mem_write(v, Mask16(v.reg[R_PC] + pc_offset), v.reg[r0])

execute_sti(v, instr) ==
    LET r0 == BitAnd(Shr(instr, 9), 7)
        pc_offset == sign_extend(BitAnd(instr, 511), 9)
        addr == mem_read(v, Mask16(v.reg[R_PC] + pc_offset))
    IN  mem_write(addr.vm, addr.val, addr.vm.reg[r0])

execute_jmp(v, instr) ==
    LET r1 == BitAnd(Shr(instr, 6), 7)
    IN  [v EXCEPT !.reg[R_PC] = v.reg[r1]]

execute_lea(v, instr) ==
    LET r0 == BitAnd(Shr(instr, 9), 7)
        pc_offset == sign_extend(BitAnd(instr, 511), 9)
    IN  update_flags([v EXCEPT !.reg[r0] = Mask16(v.reg[R_PC] + pc_offset)], r0)

\* the while loop of TRAP PUTS: the output buffer after it
RECURSIVE puts_loop(_, _, _)
puts_loop_first(m, addr, out) ==
    IF Mem(m, addr) = 0 THEN out
    ELSE Append(out, chr(BitAnd(Mem(m, addr), 255)))

puts_loop(m, addr, out) ==
    IF Mem(m, addr) = 0 THEN out
    ELSE puts_loop(m, Mask16(addr + 1), Append(out, chr(BitAnd(Mem(m, addr), 255))))

\* the while loop of TRAP PUTSP: the output buffer after it
RECURSIVE putsp_loop(_, _, _)
putsp_loop(m, addr, out) ==
    IF Mem(m, addr) = 0 THEN out
    ELSE LET char1 == BitAnd(Mem(m, addr), 255)
             char2 == BitAnd(Shr(Mem(m, addr), 8), 255)
             o1 == IF char1 # 0 THEN Append(out, chr(char1)) ELSE out
             o2 == IF char2 # 0 THEN Append(o1, chr(char2)) ELSE o1
         IN  putsp_loop(m, Mask16(addr + 1), o2)

\* trap_save_r7 variant: R7 is left as it was
trap_save_r7_skip(v) == v

\* self.reg[R_R7] = self.reg[R_PC], the first statement of _execute_trap
trap_save_r7(v) == [v EXCEPT !.reg[R_R7] = v.reg[R_PC]]

\* _execute_trap: the machine after it and what it returns.  "IndexError" is
\* the exception of self.memory[addr] for an addr past the end of the list.
execute_trap(v, instr) ==
    LET w == trap_save_r7(v)
        trap_code == BitAnd(instr, 255)
    IN  IF trap_code = TRAP_GETC THEN
            IF w.input_buffer # <<>>
            THEN [vm |-> update_flags([w EXCEPT !.reg[R_R0] = ord(Head(w.input_buffer)),
                                                !.input_buffer = Tail(@)], R_R0),
                  ret |-> "True"]
            ELSE [vm |-> w, ret |-> "WAIT_FOR_INPUT"]
        ELSE IF trap_code = TRAP_OUT THEN
            [vm |-> [w EXCEPT !.output_buffer = Append(@, chr(BitAnd(w.reg[R_R0], 255)))],
             ret |-> "True"]
        ELSE IF trap_code = TRAP_PUTS THEN
            IF w.reg[R_R0] >= MAX_MEMORY
            THEN [vm |-> w, ret |-> "IndexError"]
            ELSE [vm |-> [w EXCEPT !.output_buffer = puts_loop(w.memory, w.reg[R_R0], @)],
                  ret |-> "True"]
        ELSE IF trap_code = TRAP_IN THEN
            IF w.input_buffer # <<>>
            THEN LET char == Head(w.input_buffer)
                 IN  [vm |-> update_flags([w EXCEPT !.input_buffer = Tail(@),
                                                    !.output_buffer = Append(@, <<char>>),
                                                    !.reg[R_R0] = ord(char)], R_R0),
                      ret |-> "True"]
            ELSE [vm |-> w, ret |-> "WAIT_FOR_INPUT"]
        ELSE IF trap_code = TRAP_PUTSP THEN
            IF w.reg[R_R0] >= MAX_MEMORY
            THEN [vm |-> w, ret |-> "IndexError"]
            ELSE [vm |-> [w EXCEPT !.output_buffer = putsp_loop(w.memory, w.reg[R_R0], @)],
                  ret |-> "True"]
        ELSE IF trap_code = TRAP_HALT THEN
            [vm |-> [w EXCEPT !.output_buffer = Append(@, HALT_TEXT)], ret |-> "False"]
        ELSE [vm |-> w, ret |-> "True"]

\* the if/elif chain of step on op = instr >> 12, TRAP apart
dispatch(v, instr) ==
    LET op == Shr(instr, 12)
    IN  IF op = BR THEN execute_br(v, instr)
        ELSE IF op = ADD THEN execute_add(v, instr)
        ELSE IF op = LD THEN execute_ld(v, instr)
        ELSE IF op = ST THEN execute_st(v, instr)
        ELSE IF op = JSR THEN execute_jsr(v, instr)
        ELSE IF op = AND THEN execute_and(v, instr)
        ELSE IF op = LDR THEN execute_ldr(v, instr)
        ELSE IF op = STR THEN execute_str(v, instr)
        ELSE IF op = RTI THEN v
        ELSE IF op = NOT THEN execute_not(v, instr)
        ELSE IF op = LDI THEN execute_ldi(v, instr)
        ELSE IF op = STI THEN execute_sti(v, instr)
        ELSE IF op = JMP THEN execute_jmp(v, instr)
        ELSE IF op = RES THEN v
        ELSE IF op = LEA THEN execute_lea(v, instr)
        ELSE v

\* trap_wait variant: the PC increment is not undone
trap_wait_no_undo(v) == [v EXCEPT !.wait_for_input = TRUE]

\* if trap_result == 'WAIT_FOR_INPUT': the wait flag, and the PC increment undone
trap_wait(v) ==
    [v EXCEPT !.wait_for_input = TRUE,
              !.reg[R_PC] = Mask16(@ - 1)]

\* if trap_result is False
trap_halt(v) == [v EXCEPT !.halted = TRUE]

\* what step returns without fetching: the machine as it was
refuse(v) == [vm |-> v, ret |-> "False", instr |-> -1, at |-> -1]

\* step(), "Fetch instruction and increment PC": the machine after the two
\* statements, the instruction and the address it was fetched from
fetch(v) ==
    LET f == mem_read(v, v.reg[R_PC])
    IN  [vm |-> [f.vm EXCEPT !.reg[R_PC] = Mask16(@ + 1)],
         instr |-> f.val, at |-> Mask16(v.reg[R_PC])]

\* step(), "Decode and execute", on the machine w in which instr was fetched
decode_execute(w, instr, at) ==
    IF Shr(instr, 12) = TRAP
    THEN LET trap_result == execute_trap(w, instr)
         IN  IF trap_result.ret = "WAIT_FOR_INPUT"
             THEN [vm |-> trap_wait(trap_result.vm),
                   ret |-> "False", instr |-> instr, at |-> at]
             ELSE IF trap_result.ret = "False"
             THEN [vm |-> trap_halt(trap_result.vm),
                   ret |-> "False", instr |-> instr, at |-> at]
             ELSE [vm |-> trap_result.vm, ret |-> trap_result.ret,
                   instr |-> instr, at |-> at]
    ELSE [vm |-> dispatch(w, instr), ret |-> "True",
          instr |-> instr, at |-> at]

\* step() from the fetch on
fetch_execute(v) ==
    LET f == fetch(v)
    IN  decode_execute(f.vm, f.instr, f.at)

\* step variants: the wait flag, or the halt flag, is not tested
step_ignores_wait(v) ==
    IF v.halted THEN refuse(v)
    ELSE IF v.reg[R_PC] \in v.breakpoints /\ ~v.step_mode THEN refuse(v)
    ELSE fetch_execute(v)

step_ignores_halt(v) ==
    IF v.wait_for_input THEN refuse(v)
    ELSE IF v.reg[R_PC] \in v.breakpoints /\ ~v.step_mode THEN refuse(v)
    ELSE fetch_execute(v)

\* step(): the machine after it, what it returns ("True", "False", or the
\* exception that leaves it), and the instruction it fetched (-1: none) with
\* the address it was fetched from
step(v) ==
    IF v.halted \/ v.wait_for_input THEN refuse(v)
    ELSE IF v.reg[R_PC] \in v.breakpoints /\ ~v.step_mode THEN refuse(v)
    ELSE fetch_execute(v)

(***************************************************************************)
(* Inputs and bounds                                                       *)
(***************************************************************************)
\* Object images, as the bytes of the file.  The words after the origin:
\* AND R0,R0,#0 / ADD R0,R0,#7 / ADD R1,R0,R0 / NOT R2,R1 / AND R3,R2,R1 /
\* ADD R4,R2,#-1 / HALT
ProgArith == <<48, 0, 80, 32, 16, 39, 18, 0, 148, 127, 86, 129, 24, 191, 240, 37>>
\* GETC / OUT / HALT
ProgEcho == <<48, 0, 240, 32, 240, 33, 240, 37>>
\* IN / PUTS / TRAP xFF / HALT
ProgIO == <<48, 0, 240, 35, 240, 34, 240, 255, 240, 37>>
\* LEA R0,MSG / PUTS / PUTSP / HALT / MSG: x0048 x6900 x0000
ProgStr == <<48, 0, 224, 3, 240, 34, 240, 36, 240, 37, 0, 72, 105, 0, 0, 0>>
\* LDI R0,KBSR / BRzp -2 / LDI R1,KBDR / HALT / KBSR: xFE00 / KBDR: xFE02
ProgKbd == <<48, 0, 160, 3, 7, 254, 162, 2, 240, 37, 254, 0, 254, 2>>
\* LEA R1,D / ST R1,D / LD R2,D / STR R2,R1,#1 / LDR R3,R1,#1 / STI R3,D /
\* JSR S / RTI / RES / HALT / S: RET  (D is the word after S)
ProgMem == <<48, 0, 226, 10, 50, 9, 36, 8, 116, 65, 102, 65, 182, 5, 72, 3,
             128, 0, 208, 0, 240, 37, 193, 192>>
\* LEA R7,#3 / JSRR R7 / LEA R2,#1 / JSRR R2 / HALT
ProgJsrr == <<48, 0, 238, 3, 65, 192, 228, 1, 64, 128, 240, 37>>
\* origin xFFFF: GETC, a word past the end of memory, and an odd last byte
ProgEdge == <<255, 255, 240, 32, 18, 52, 86>>
\* a file of one byte
ProgShort == <<48>>
\* HALT
ProgHalt == <<48, 0, 240, 37>>

\* LD R0,PTR / LD R1,W1 / STR R1,R0,#0 / LD R2,W2 / STR R2,R0,#1 / PUTSP /
\* HALT / PTR: xFFFF / W1: x4142 / W2: x4300: a packed string over the end
\* of memory, whose second word has its high byte only
ProgWrap == <<48, 0, 32, 6, 34, 6, 114, 0, 36, 5, 116, 1, 240, 36, 240, 37,
              255, 255, 65, 66, 67, 0>>
\* GETC / PUTSP / HALT
ProgGetsp == <<48, 0, 240, 32, 240, 36, 240, 37>>

\* LDI R0,KBSR / IN / HALT / KBSR: xFE00
ProgPoll == <<48, 0, 160, 2, 240, 35, 240, 37, 254, 0>>

\* origin xFDFE: STI R1,#1, whose pointer is the word at xFE00 (KBSR)
ProgSti == <<253, 254, 178, 1>>

Images == {ProgArith, ProgEcho, ProgIO, ProgStr, ProgKbd, ProgMem, ProgJsrr,
           ProgEdge, ProgShort, ProgHalt, ProgWrap, ProgGetsp, ProgSti}

\* the images the debugger specification loads
ImagesRun == {ProgArith, ProgEcho, ProgHalt, ProgGetsp, ProgPoll}

\* Characters typed into the input entry: "A", fullwidth "A" (U+FF21) and
\* U+10041, a character outside the basic plane
Chars == {65, 65313, 65601}

\* The strings sent by send_input in the debugger specification: "", the
\* one character U+10041, and "BC"
Texts == {<<>>, <<65601>>, <<66, 67>>}

\* The addresses typed into the breakpoint entry
BpAddrs == {12289}

\* Steps are explored while PC is within CodeWindow words of x3000, at the
\* two ends of memory, or two words before KBSR
CodeWindow == 12
InWindow(pc) ==
    \/ (12288 <= pc /\ pc <= 12288 + CodeWindow)
    \/ pc = 65535 \/ pc = 0 \/ pc = MR_KBSR - 2

\* Longest input buffer and output buffer explored, most engine threads alive
MaxIn == 2
MaxOut == 3
MaxThreads == 2

\* An image is loaded over a memory of at most MaxDirty non-zero words
MaxDirty == 1
Dirty(v) == Cardinality(DOMAIN v.memory)

(***************************************************************************)
(* LC3Assembler (src/assemble.py)                                          *)
(*                                                                         *)
(* The assembler object is a record with the fields of the Python object   *)
(* (symbol_table, pc, origin, memory, line_number).  The symbol table is   *)
(* the function from the label names to their addresses.  A source line    *)
(* and a token are Python strings, that is sequences of code points; a     *)
(* token list is a sequence of them, numbered from 1 (tokens[1] is the     *)
(* tokens[0] of the code).  A method that returns a value or leaves by an  *)
(* exception is an operator to a record [exc, val]: exc is "None" or the   *)
(* name of the exception.  self.error() is sys.exit(1), the exception      *)
(* SystemExit, which ends the assembly.                                    *)
(***************************************************************************)
\* the characters " " (32) to "~" (126), in the order of their code points;
\* three of them stand under a name and are written as code points where
\* a text needs them
Printable ==
    <<" ", "!", "quote", "#", "$", "%", "&", "'", "(", ")", "*", "+", ",", "-", ".", "/",
      "0", "1", "2", "3", "4", "5", "6", "7", "8", "9", ":", ";", "<", "=", ">", "?",
      "@", "A", "B", "C", "D", "E", "F", "G", "H", "I", "J", "K", "L", "M", "N", "O",
      "P", "Q", "R", "S", "T", "U", "V", "W", "X", "Y", "Z", "[", "backslash", "]", "^", "_",
      "grave", "a", "b", "c", "d", "e", "f", "g", "h", "i", "j", "k", "l", "m", "n", "o",
      "p", "q", "r", "s", "t", "u", "v", "w", "x", "y", "z", "{", "|", "}", "~">>

CodePoint(c) == 31 + (CHOOSE i \in 1..Len(Printable) : Printable[i] = c)

\* the Python string of the characters t, one character per element
Str(t) == [i \in 1..Len(t) |-> CodePoint(t[i])]

\* the characters of str.strip() and of \s among the characters of the inputs
Whitespace == {9, 10, 11, 12, 13, 32}

\* str.upper() on ASCII text
upper(s) == [i \in 1..Len(s) |-> IF s[i] \in 97..122 THEN s[i] - 32 ELSE s[i]]

startswith(s, prefix) ==
    Len(prefix) <= Len(s) /\ SubSeq(s, 1, Len(prefix)) = prefix

endswith(s, suffix) ==
    Len(suffix) <= Len(s) /\ SubSeq(s, Len(s) - Len(suffix) + 1, Len(s)) = suffix

RECURSIVE lstrip(_)
lstrip(s) == IF s # <<>> /\ Head(s) \in Whitespace THEN lstrip(Tail(s)) ELSE s

RECURSIVE rstrip(_)
rstrip(s) ==
    IF s # <<>> /\ s[Len(s)] \in Whitespace
    THEN rstrip(SubSeq(s, 1, Len(s) - 1))
    ELSE s

strip(s) == rstrip(lstrip(s))

\* ' '.join(tokens)
RECURSIVE join(_)
join(tokens) ==
    IF tokens = <<>> THEN <<>>
    ELSE IF Len(tokens) = 1 THEN tokens[1]
    ELSE tokens[1] \o <<32>> \o join(Tail(tokens))

\* x & mask for any integer x and a mask in 0..0xFFFF
AndMask(x, mask) == BitAnd(x % 65536, mask)

\* a value returned; an exception raised; self.error(message)
Ok(val) == [exc |-> "None", val |-> val]
Raise(exc) == [exc |-> exc, val |-> 0]
error == Raise("SystemExit")

\* int(text, base) for text made of a sign and digits: the value of a digit
\* character, 36 for a character that is no digit
DigitValue(c) ==
    IF c \in 48..57 THEN c - 48
    ELSE IF c \in 97..122 THEN c - 87
    ELSE IF c \in 65..90 THEN c - 55
    ELSE 36

RECURSIVE digits_value(_, _, _)
digits_value(digits, base, acc) ==
    IF digits = <<>> THEN acc
    ELSE digits_value(Tail(digits), base, acc * base + DigitValue(Head(digits)))

\* int of a text without its sign
int_digits(negative, digits, base) ==
    IF digits = <<>> \/ \E i \in 1..Len(digits) : DigitValue(digits[i]) >= base
    THEN Raise("ValueError")
    ELSE IF negative THEN Ok(0 - digits_value(digits, base, 0))
    ELSE Ok(digits_value(digits, base, 0))

int(text, base) ==
    IF text # <<>> /\ Head(text) \in {43, 45}
    THEN int_digits(Head(text) = 45, Tail(text), base)
    ELSE int_digits(FALSE, text, base)

\* LC3Assembler(): the object after __init__
LC3Assembler ==
    [symbol_table |-> [l \in {} |-> 0],
     pc |-> 0,
     origin |-> 12288,
     memory |-> <<>>,
     line_number |-> 0]

\* self.registers: R0..R7
registers == [name \in {<<82, 48 + r>> : r \in 0..7} |-> name[2] - 48]

\* self.trap_vectors: GETC, OUT, PUTS, IN, PUTSP, HALT
trap_vectors ==
    (<<71, 69, 84, 67>> :> 32) @@ (<<79, 85, 84>> :> 33) @@
    (<<80, 85, 84, 83>> :> 34) @@ (<<73, 78>> :> 35) @@
    (<<80, 85, 84, 83, 80>> :> 36) @@ (<<72, 65, 76, 84>> :> 37)

\* "x", "X": hexadecimal; "b", "B": binary; "#": decimal; else plain decimal
parse_stripped(token) ==
    IF startswith(token, <<120>>) \/ startswith(token, <<88>>)
    THEN int(Tail(token), 16)
    ELSE IF startswith(token, <<98>>) \/ startswith(token, <<66>>)
    THEN int(Tail(token), 2)
    ELSE IF startswith(token, <<35>>) THEN int(Tail(token), 10)
    ELSE int(token, 10)

parse_number(token) == parse_stripped(strip(token))

\* the assembler's sign_extend(value, bits)
asm_sign_extend(value, bits) ==
    IF BitAnd(value, Shl(1, bits - 1)) # 0
    THEN BitOr(value, Shl(65535, bits))
    ELSE BitAnd(value, Shl(1, bits) - 1)

\* check_range variant: every value that fits the field as an unsigned
\* number passes as well
check_range_bit_pattern(value, bits, signed) ==
    (0 - Shl(1, bits - 1)) <= value /\ value <= Shl(1, bits) - 1

check_range(value, bits, signed) ==
    LET min_val == IF signed THEN 0 - Shl(1, bits - 1) ELSE 0
        max_val == IF signed THEN Shl(1, bits - 1) - 1 ELSE Shl(1, bits) - 1
    IN  min_val <= value /\ value <= max_val

\* re.split(r'[\s,]+', text) without its empty strings: the runs of
\* characters other than whitespace and commas
RECURSIVE re_split(_, _, _)
re_split(text, token, tokens) ==
    IF text = <<>>
    THEN IF token = <<>> THEN tokens ELSE Append(tokens, token)
    ELSE IF Head(text) \in Whitespace \cup {44}
    THEN re_split(Tail(text), <<>>,
                  IF token = <<>> THEN tokens ELSE Append(tokens, token))
    ELSE re_split(Tail(text), Append(token, Head(text)), tokens)

tokenize_line(line) ==
    LET semicolons == {i \in 1..Len(line) : line[i] = 59}
        first == CHOOSE i \in semicolons : \A j \in semicolons : i <= j
        code == IF semicolons # {} THEN SubSeq(line, 1, first - 1) ELSE line
    IN  re_split(strip(code), <<>>, <<>>)

is_register(token) == upper(token) \in DOMAIN registers

parse_register(token) ==
    IF upper(token) \notin DOMAIN registers THEN error
    ELSE Ok(registers[upper(token)])

\* except ValueError: self.error(...)
except_value_error(r) == IF r.exc = "ValueError" THEN error ELSE r

parse_immediate(token) == except_value_error(parse_number(token))

\* the words of an instruction: (a << 12) | (b << 9) | (c << 6) | d
Word(a, b, c, d) == BitOr(BitOr(BitOr(Shl(a, 12), Shl(b, 9)), Shl(c, 6)), d)

\* label_offset variant: the offset is taken from the address of the
\* instruction itself
label_offset_from_pc(self, token) ==
    IF token \in DOMAIN self.symbol_table
    THEN Ok(self.symbol_table[token] - self.pc)
    ELSE parse_immediate(token)

\* the operand of a PC-relative instruction: the distance to a label of the
\* symbol table, from the incremented PC, or else a number
label_offset(self, token) ==
    IF token \in DOMAIN self.symbol_table
    THEN Ok(self.symbol_table[token] - (self.pc + 1))
    ELSE parse_immediate(token)

\* the range check of an operand and the operand put in its field of bits
\* bits, the lowest of the word: error unless the operand is a number in
\* range, else word | (value & mask)
field(word, value, bits, signed) ==
    IF value.exc # "None" THEN error
    ELSE IF ~check_range(value.val, bits, signed) THEN error
    ELSE Ok(BitOr(word, AndMask(value.val, Shl(1, bits) - 1)))

assemble_br(self, tokens) ==
    IF Len(tokens) # 2 THEN error
    ELSE LET instr == upper(tokens[1])
             letters == {instr[i] : i \in 1..Len(instr)}
             n0 == IF 78 \in letters THEN 1 ELSE 0
             z0 == IF 90 \in letters THEN 1 ELSE 0
             p0 == IF 80 \in letters THEN 1 ELSE 0
             all == n0 = 0 /\ z0 = 0 /\ p0 = 0
             n == IF all THEN 1 ELSE n0
             z == IF all THEN 1 ELSE z0
             p == IF all THEN 1 ELSE p0
         IN  field(BitOr(BitOr(BitOr(Shl(0, 12), Shl(n, 11)), Shl(z, 10)), Shl(p, 9)),
                   label_offset(self, tokens[2]), 9, TRUE)

\* ADD and AND, which differ in the opcode
assemble_alu(opcode, tokens) ==
    IF Len(tokens) # 4 THEN error
    ELSE LET dr == parse_register(tokens[2])
             sr1 == parse_register(tokens[3])
         IN  IF dr.exc # "None" \/ sr1.exc # "None" THEN error
             ELSE IF is_register(tokens[4])
             THEN Ok(Word(opcode, dr.val, sr1.val, parse_register(tokens[4]).val))
             ELSE field(Word(opcode, dr.val, sr1.val, Shl(1, 5)),
                        parse_immediate(tokens[4]), 5, TRUE)

assemble_add(self, tokens) == assemble_alu(1, tokens)

assemble_and(self, tokens) == assemble_alu(5, tokens)

assemble_not(self, tokens) ==
    IF Len(tokens) # 3 THEN error
    ELSE LET dr == parse_register(tokens[2])
             sr == parse_register(tokens[3])
         IN  IF dr.exc # "None" \/ sr.exc # "None" THEN error
             ELSE Ok(Word(9, dr.val, sr.val, 63))

\* LD, ST, LDI, STI and LEA, which differ in the opcode
assemble_pc9(opcode, self, tokens) ==
    IF Len(tokens) # 3 THEN error
    ELSE LET r == parse_register(tokens[2])
         IN  IF r.exc # "None" THEN error
             ELSE field(BitOr(Shl(opcode, 12), Shl(r.val, 9)),
                        label_offset(self, tokens[3]), 9, TRUE)

assemble_ld(self, tokens) == assemble_pc9(2, self, tokens)

assemble_st(self, tokens) == assemble_pc9(3, self, tokens)

assemble_ldi(self, tokens) == assemble_pc9(10, self, tokens)

assemble_sti(self, tokens) == assemble_pc9(11, self, tokens)

assemble_lea(self, tokens) == assemble_pc9(14, self, tokens)

assemble_jsr(self, tokens) ==
    IF Len(tokens) # 2 THEN error
    ELSE IF upper(tokens[1]) = <<74, 83, 82, 82>>
    THEN LET base_r == parse_register(tokens[2])
         IN  IF base_r.exc # "None" THEN error
             ELSE Ok(BitOr(Shl(4, 12), Shl(base_r.val, 6)))
    ELSE field(BitOr(Shl(4, 12), Shl(1, 11)), label_offset(self, tokens[2]),
               11, TRUE)

assemble_jmp(self, tokens) ==
    IF upper(tokens[1]) = <<82, 69, 84>>
    THEN Ok(BitOr(Shl(12, 12), Shl(7, 6)))
    ELSE IF Len(tokens) # 2 THEN error
    ELSE LET base_r == parse_register(tokens[2])
         IN  IF base_r.exc # "None" THEN error
             ELSE Ok(BitOr(Shl(12, 12), Shl(base_r.val, 6)))

\* LDR and STR, which differ in the opcode
assemble_base6(opcode, tokens) ==
    IF Len(tokens) # 4 THEN error
    ELSE LET r == parse_register(tokens[2])
             base_r == parse_register(tokens[3])
         IN  IF r.exc # "None" \/ base_r.exc # "None" THEN error
             ELSE field(Word(opcode, r.val, base_r.val, 0),
                        parse_immediate(tokens[4]), 6, TRUE)

assemble_ldr(self, tokens) == assemble_base6(6, tokens)

assemble_str(self, tokens) == assemble_base6(7, tokens)

assemble_trap(self, tokens) ==
    IF Len(tokens) # 2 THEN error
    ELSE field(Shl(15, 12),
               IF upper(tokens[2]) \in DOMAIN trap_vectors
               THEN Ok(trap_vectors[upper(tokens[2])])
               ELSE parse_immediate(tokens[2]),
               8, FALSE)

assemble_rti(self, tokens) ==
    IF Len(tokens) # 1 THEN error ELSE Ok(Shl(8, 12))

assemble_instruction(self, tokens) ==
    LET opcode == upper(tokens[1])
    IN  IF startswith(opcode, <<66, 82>>) THEN assemble_br(self, tokens)
        ELSE IF opcode = <<65, 68, 68>> THEN assemble_add(self, tokens)
        ELSE IF opcode = <<65, 78, 68>> THEN assemble_and(self, tokens)
        ELSE IF opcode = <<78, 79, 84>> THEN assemble_not(self, tokens)
        ELSE IF opcode = <<76, 68>> THEN assemble_ld(self, tokens)
        ELSE IF opcode = <<83, 84>> THEN assemble_st(self, tokens)
        ELSE IF opcode \in {<<74, 83, 82>>, <<74, 83, 82, 82>>}
        THEN assemble_jsr(self, tokens)
        ELSE IF opcode \in {<<74, 77, 80>>, <<82, 69, 84>>}
        THEN assemble_jmp(self, tokens)
        ELSE IF opcode = <<76, 68, 82>> THEN assemble_ldr(self, tokens)
        ELSE IF opcode = <<83, 84, 82>> THEN assemble_str(self, tokens)
        ELSE IF opcode = <<76, 68, 73>> THEN assemble_ldi(self, tokens)
        ELSE IF opcode = <<83, 84, 73>> THEN assemble_sti(self, tokens)
        ELSE IF opcode = <<76, 69, 65>> THEN assemble_lea(self, tokens)
        ELSE IF opcode = <<84, 82, 65, 80>> THEN assemble_trap(self, tokens)
        ELSE IF opcode \in DOMAIN trap_vectors
        THEN assemble_trap(self, <<<<84, 82, 65, 80>>, opcode>>)
        ELSE IF opcode = <<82, 84, 73>> THEN assemble_rti(self, tokens)
        ELSE error

\* the character that follows a backslash in a .STRINGZ string
escape(c) ==
    IF c = 110 THEN 10
    ELSE IF c = 116 THEN 9
    ELSE IF c = 114 THEN 13
    ELSE IF c = 92 THEN 92
    ELSE IF c = 34 THEN 34
    ELSE ord(c)

\* the character codes of a .STRINGZ string, as process_directive decodes it
RECURSIVE stringz_decode(_)
stringz_decode(string_content) ==
    IF string_content = <<>> THEN <<>>
    ELSE IF Head(string_content) = 92 /\ Len(string_content) > 1
    THEN <<escape(string_content[2])>>
             \o stringz_decode(SubSeq(string_content, 3, Len(string_content)))
    ELSE <<ord(Head(string_content))>> \o stringz_decode(Tail(string_content))

\* stringz_count variant: a backslash escape counts for two characters
stringz_count_raw(string_content) == Len(string_content)

\* the char_count of first_pass for a .STRINGZ string
RECURSIVE stringz_count(_)
stringz_count(string_content) ==
    IF string_content = <<>> THEN 0
    ELSE IF Head(string_content) = 92 /\ Len(string_content) > 1
    THEN 1 + stringz_count(SubSeq(string_content, 3, Len(string_content)))
    ELSE 1 + stringz_count(Tail(string_content))

\* process_directive: the object after it and the words to emit (None: no
\* word, a word: one, a list: its elements)
process_directive(self, tokens) ==
    LET directive == upper(tokens[1])
        none == [exc |-> "None", self |-> self, words |-> <<>>]
        exit == [exc |-> "SystemExit", self |-> self, words |-> <<>>]
    IN  IF directive = <<46, 79, 82, 73, 71>>
        THEN IF Len(tokens) # 2 THEN exit
             ELSE LET origin == parse_immediate(tokens[2])
                  IN  IF origin.exc # "None" THEN exit
                      ELSE [none EXCEPT !.self.origin = origin.val,
                                        !.self.pc = origin.val]
        ELSE IF directive = <<46, 70, 73, 76, 76>>
        THEN IF Len(tokens) # 2 THEN exit
             ELSE IF tokens[2] \in DOMAIN self.symbol_table
             THEN [none EXCEPT !.words = <<self.symbol_table[tokens[2]]>>]
             ELSE LET value == parse_immediate(tokens[2])
                  IN  IF value.exc # "None" THEN exit
                      ELSE [none EXCEPT !.words = <<AndMask(value.val, 65535)>>]
        ELSE IF directive = <<46, 66, 76, 75, 87>>
        THEN IF Len(tokens) # 2 THEN exit
             ELSE LET count == parse_immediate(tokens[2])
                  IN  IF count.exc # "None" \/ count.val < 0 THEN exit
                      ELSE [none EXCEPT !.words = [i \in 1..count.val |-> 0]]
        ELSE IF directive = <<46, 83, 84, 82, 73, 78, 71, 90>>
        THEN IF Len(tokens) < 2 THEN exit
             ELSE LET string_content == join(Tail(tokens))
                  IN  IF ~(startswith(string_content, <<34>>)
                             /\ endswith(string_content, <<34>>))
                      THEN exit
                      ELSE [none EXCEPT !.words =
                               stringz_decode(SubSeq(string_content, 2,
                                                     Len(string_content) - 1))
                                   \o <<0>>]
        ELSE IF directive = <<46, 69, 78, 68>> THEN none
        ELSE exit

\* the loop body of a pass goes on to the next line with the object self;
\* an exception leaves the loop
Continue(self) == [exc |-> "None", self |-> self]
Leave(exc, self) == [exc |-> exc, self |-> self]

\* first_pass, a line that starts with a directive
first_pass_directive(self, tokens, directive) ==
    IF directive = <<46, 79, 82, 73, 71>>
    THEN IF Len(tokens) < 2 THEN Leave("IndexError", self)
         ELSE LET origin == parse_immediate(tokens[2])
              IN  IF origin.exc # "None" THEN Leave("SystemExit", self)
                  ELSE Continue([self EXCEPT !.origin = origin.val,
                                             !.pc = origin.val])
    ELSE IF directive = <<46, 66, 76, 75, 87>>
    THEN IF Len(tokens) < 2 THEN Leave("IndexError", self)
         ELSE LET count == parse_immediate(tokens[2])
              IN  IF count.exc # "None" THEN Leave("SystemExit", self)
                  ELSE Continue([self EXCEPT !.pc = @ + count.val])
    ELSE IF directive = <<46, 83, 84, 82, 73, 78, 71, 90>>
    THEN LET string_content == join(Tail(tokens))
         IN  IF startswith(string_content, <<34>>) /\ endswith(string_content, <<34>>)
             THEN Continue([self EXCEPT !.pc =
                      @ + stringz_count(SubSeq(string_content, 2,
                                               Len(string_content) - 1)) + 1])
             ELSE Continue([self EXCEPT !.pc = @ + 1])
    ELSE IF directive = <<46, 70, 73, 76, 76>>
    THEN Continue([self EXCEPT !.pc = @ + 1])
    ELSE IF directive = <<46, 69, 78, 68>> THEN Continue(self)
    ELSE Leave("SystemExit", self)

\* first_pass, what follows the label: nothing, a directive, or else an
\* instruction, which takes one word
first_pass_statement(self, tokens) ==
    IF tokens = <<>> THEN Continue(self)
    ELSE IF startswith(tokens[1], <<46>>)
    THEN first_pass_directive(self, tokens, upper(tokens[1]))
    ELSE Continue([self EXCEPT !.pc = @ + 1])

\* first_pass_label variant: a second definition replaces the first
first_pass_label_overwrite(self, tokens, label) ==
    first_pass_statement(
        [self EXCEPT !.symbol_table =
            (label :> self.pc) @@ [l \in (DOMAIN @) \ {label} |-> @[l]]],
        Tail(tokens))

\* first_pass, a first token that ends with a colon
first_pass_label(self, tokens, label) ==
    IF label \in DOMAIN self.symbol_table THEN Leave("SystemExit", self)
    ELSE first_pass_statement(
             [self EXCEPT !.symbol_table = (label :> self.pc) @@ @],
             Tail(tokens))

first_pass_tokens(self, tokens) ==
    IF tokens = <<>> THEN Continue(self)
    ELSE IF endswith(tokens[1], <<58>>)
    THEN first_pass_label(self, tokens, SubSeq(tokens[1], 1, Len(tokens[1]) - 1))
    ELSE first_pass_statement(self, tokens)

first_pass_stripped(self, line) ==
    IF line = <<>> \/ Head(line) = 59 THEN Continue(self)
    ELSE first_pass_tokens(self, tokenize_line(line))

\* the body of the loop of first_pass for the line numbered line_number:
\* the object after it, and the exception that left the loop, if any
first_pass_line(a, line_number, text) ==
    first_pass_stripped([a EXCEPT !.line_number = line_number], strip(text))

\* second_pass, the words of a directive appended
second_pass_emit(result) ==
    [exc |-> result.exc,
     self |-> [result.self EXCEPT !.memory = @ \o result.words,
                                  !.pc = @ + Len(result.words)]]

\* second_pass, the word of an instruction appended
second_pass_code(self, machine_code) ==
    IF machine_code.exc # "None" THEN Leave(machine_code.exc, self)
    ELSE Continue([self EXCEPT !.memory = Append(@, machine_code.val),
                               !.pc = @ + 1])

second_pass_statement(self, tokens) ==
    IF tokens = <<>> THEN Continue(self)
    ELSE IF startswith(tokens[1], <<46>>)
    THEN second_pass_emit(process_directive(self, tokens))
    ELSE second_pass_code(self, assemble_instruction(self, tokens))

\* second_pass, the label skipped
second_pass_tokens(self, tokens) ==
    IF tokens = <<>> THEN Continue(self)
    ELSE IF endswith(tokens[1], <<58>>)
    THEN second_pass_statement(self, Tail(tokens))
    ELSE second_pass_statement(self, tokens)

second_pass_stripped(self, line) ==
    IF line = <<>> \/ Head(line) = 59 THEN Continue(self)
    ELSE second_pass_tokens(self, tokenize_line(line))

\* the body of the loop of second_pass for the line numbered line_number
second_pass_line(a, line_number, text) ==
    second_pass_stripped([a EXCEPT !.line_number = line_number], strip(text))

\* struct.pack('>H', word): big-endian
packH(word) == <<word \div 256, word % 256>>

\* the bytes write_obj_file writes for the words of memory: word & 0xFFFF,
\* the high byte first
pack_words(memory) ==
    [k \in 1..(2 * Len(memory)) |->
        packH(AndMask(memory[(k + 1) \div 2], 65535))[2 - (k % 2)]]

\* an input of the assembler, in one shape for the three kinds of input
Input(kind, op, mode, r1, r2, r3, v, body) ==
    [kind |-> kind, op |-> op, mode |-> mode,
     r1 |-> r1, r2 |-> r2, r3 |-> r3, v |-> v, body |-> body]

NoInput == Input("none", "", "", 0, 0, 0, 0, <<>>)

\* the assembler before any call, with the input it is going to be given
Fresh(input) ==
    [input |-> input, self |-> LC3Assembler, at |-> "init", i |-> 0,
     lines |-> <<>>, ret |-> Ok(0), ret_vm |-> 0, ret_lc3 |-> Ok(0),
     exc |-> "None", obj |-> <<>>,
     lc1 |-> <<>>, lc2 |-> <<>>, base |-> <<>>]

(***************************************************************************)
(* The second assembler (src/lc3_assembler.py): the encoding of a branch.  *)
(* labels is the function from the label names to their addresses.        *)
(***************************************************************************)
to_twos_complement(val, bits) ==
    AndMask(IF val < 0 THEN Shl(1, bits) + val ELSE val, Shl(1, bits) - 1)

\* get_offset of assemble_line: a label that is not defined is a KeyError
get_offset(labels, pc, label, bits) ==
    IF label \notin DOMAIN labels THEN Raise("KeyError")
    ELSE Ok(to_twos_complement(labels[label] - (pc + 1), bits))

\* c in s, for a character c
contains(s, c) == \E i \in 1..Len(s) : s[i] = c

\* assemble_line, the branch taken when opcode starts with "BR": the
\* letters n, z, p are looked for in opcode as it is passed
assemble_line_br(opcode, args, labels, pc) ==
    LET cond == BitOr(BitOr(IF contains(opcode, 110) THEN 4 ELSE 0,
                            IF contains(opcode, 122) THEN 2 ELSE 0),
                      IF contains(opcode, 112) THEN 1 ELSE 0)
    IN  IF args = <<>> THEN Raise("IndexError")
        ELSE LET pc_offset == get_offset(labels, pc, args[1], 9)
             IN  IF pc_offset.exc # "None" THEN pc_offset
                 ELSE Ok(BitOr(BitOr(Shl(0, 12), Shl(cond, 9)), pc_offset.val))

\* p.strip(","): the commas at both ends are taken off
RECURSIVE strip_commas(_)
strip_commas(p) ==
    IF p = <<>> THEN p
    ELSE IF Head(p) = 44 THEN strip_commas(Tail(p))
    ELSE IF p[Len(p)] = 44 THEN strip_commas(SubSeq(p, 1, Len(p) - 1))
    ELSE p

\* the body of the second loop of assemble for a branch line: the opcode is
\* put in upper case before assemble_line sees it
assemble_encode(parts, labels, pc) ==
    assemble_line_br(upper(parts[1]),
                     [i \in 1..(Len(parts) - 1) |-> strip_commas(parts[i + 1])],
                     labels, pc)

(***************************************************************************)
(* State                                                                   *)
(***************************************************************************)
\* vm: the LC3VirtualMachine object
\* threads: the bag of the live engine threads (_run_thread), each at
\*   "while" (about to test the loop condition, after the sleep),
\*   "step" (about to call vm.step()), "failed" (step returned False,
\*   about to clear running) or "bp" (about to test PC against breakpoints)
\* last: the call that produced the state: its name, what vm.step or
\*   vm.load_program returned in it, the instruction vm.step fetched
\*   (-1: none) and the address it was fetched from; and after_stop, the
\*   number of instructions the engine threads have executed since the last
\*   stop_program made during a run with no run_program or send_input after
\*   it (-1: there is no such stop_program; counted up to 2)
\* gui: where the GUI thread is: "idle" (in the event loop, between two
\*   handlers) or "joined" (in update_output of the periodic update_display,
\*   after output = ''.join(output_buffer) and before output_buffer.clear()),
\*   with the string it joined
\* asm: the LC3Assembler object and the run it is in; the debugger and the
\*   machine alone leave it as it is constructed
VARIABLES vm, threads, last, gui, asm

vars == <<vm, threads, last, gui, asm>>

Call(op, ret, instr, at) ==
    [op |-> op, ret |-> ret, instr |-> instr, at |-> at,
     after_stop |->
        IF op = "stop_program"
        THEN IF vm.running /\ threads # EmptyBag THEN 0 ELSE last.after_stop
        ELSE IF op \in {"run_program", "send_input"} THEN -1
        ELSE IF op = "thread_step" /\ instr # -1 /\ last.after_stop \in {0, 1}
        THEN last.after_stop + 1
        ELSE last.after_stop]

Init ==
    /\ vm = NewVM
    /\ threads = EmptyBag
    /\ last = [op |-> "__init__", ret |-> "None", instr |-> -1, at |-> -1,
               after_stop |-> -1]
    /\ gui = [at |-> "idle", output |-> <<>>]
    /\ asm = Fresh(NoInput)

\* the GUI thread is free to run a handler
GuiIdle == gui.at = "idle"

\* update_output: the output buffer is moved to the console widget
update_output(v) == [v EXCEPT !.output_buffer = <<>>]

(***************************************************************************)
(* SpecVM: one caller using the machine object                             *)
(***************************************************************************)
VMReset ==
    /\ vm' = reset(vm)
    /\ last' = Call("reset", "None", -1, -1)
    /\ UNCHANGED <<threads, gui, asm>>

VMLoad(data) ==
    LET r == load_program(vm, data)
    IN  /\ Dirty(vm) <= MaxDirty
        /\ vm' = r.vm
        /\ last' = Call("load_program", r.ret, -1, -1)
        /\ UNCHANGED <<threads, gui, asm>>

VMStep ==
    /\ InWindow(vm.reg[R_PC])
    /\ Len(vm.output_buffer) < MaxOut
    /\ LET r == step(vm)
       IN  /\ vm' = r.vm
           /\ last' = Call("step", r.ret, r.instr, r.at)
    /\ UNCHANGED <<threads, gui, asm>>

\* self.vm.input_buffer.append(char)
VMInput(char) ==
    /\ Len(vm.input_buffer) < MaxIn
    /\ vm' = [vm EXCEPT !.input_buffer = Append(@, char)]
    /\ last' = Call("input", "None", -1, -1)
    /\ UNCHANGED <<threads, gui, asm>>

\* if not halted and wait_for_input: wait_for_input = False
VMResume ==
    /\ ~vm.halted /\ vm.wait_for_input
    /\ vm' = [vm EXCEPT !.wait_for_input = FALSE]
    /\ last' = Call("resume", "None", -1, -1)
    /\ UNCHANGED <<threads, gui, asm>>

\* output_buffer.clear()
VMDrain ==
    /\ vm.output_buffer # <<>>
    /\ vm' = update_output(vm)
    /\ last' = Call("update_output", "None", -1, -1)
    /\ UNCHANGED <<threads, gui, asm>>

NextVM ==
    \/ VMReset
    \/ \E data \in Images : VMLoad(data)
    \/ VMStep
    \/ \E char \in Chars : VMInput(char)
    \/ VMResume
    \/ VMDrain

SpecVM == Init /\ [][NextVM]_vars

(***************************************************************************)
(* Spec: LC3Debugger.  The front-end handlers run on the GUI thread, one   *)
(* at a time and each to its end; every engine thread takes one step of    *)
(* _run_thread at a time.  An instruction (one vm.step call) is atomic.    *)
(* The update_output of the periodic update_display, the drain that meets  *)
(* a running engine, takes two steps: the join and the clear.              *)
(***************************************************************************)
Thread(pos) == SetToBag({pos})

\* the body of run_program: the machine and the threads after it
start_run(v, th) ==
    IF ~v.running /\ ~v.halted
    THEN [vm |-> [v EXCEPT !.running = TRUE, !.step_mode = FALSE],
          threads |-> th (+) Thread("while")]
    ELSE [vm |-> v, threads |-> th]

\* the model starts a thread only while fewer than MaxThreads are alive
CanStart(v) == (~v.running /\ ~v.halted) => BagCardinality(threads) < MaxThreads

run_program ==
    /\ GuiIdle
    /\ CanStart(vm)
    /\ LET r == start_run(vm, threads)
       IN  vm' = r.vm /\ threads' = r.threads
    /\ last' = Call("run_program", "None", -1, -1)
    /\ UNCHANGED <<gui, asm>>

\* while self.vm.running and not self.vm.halted
run_thread_while ==
    /\ BagIn("while", threads)
    /\ IF vm.running /\ ~vm.halted
       THEN threads' = (threads (-) Thread("while")) (+) Thread("step")
       ELSE threads' = threads (-) Thread("while")
    /\ last' = Call("thread_while", "None", -1, -1)
    /\ UNCHANGED <<vm, gui, asm>>

\* if not self.vm.step(): an exception of step ends the thread
run_thread_step ==
    /\ BagIn("step", threads)
    /\ InWindow(vm.reg[R_PC])
    /\ Len(vm.output_buffer) < MaxOut
    /\ LET r == step(vm)
       IN  /\ vm' = r.vm
           /\ threads' = (threads (-) Thread("step")) (+)
                  (IF r.ret = "True" THEN Thread("bp")
                   ELSE IF r.ret = "False" THEN Thread("failed")
                   ELSE EmptyBag)
           /\ last' = Call("thread_step", r.ret, r.instr, r.at)
    /\ UNCHANGED <<gui, asm>>

\* self.vm.running = False; break
run_thread_failed ==
    /\ BagIn("failed", threads)
    /\ vm' = [vm EXCEPT !.running = FALSE]
    /\ threads' = threads (-) Thread("failed")
    /\ last' = Call("thread_failed", "None", -1, -1)
    /\ UNCHANGED <<gui, asm>>

\* run_thread_bp variant: the loop goes on whatever PC is
run_thread_bp_no_exit ==
    /\ BagIn("bp", threads)
    /\ vm' = vm
    /\ threads' = (threads (-) Thread("bp")) (+) Thread("while")
    /\ last' = Call("thread_bp", "None", -1, -1)
    /\ UNCHANGED <<gui, asm>>

\* the breakpoint test after the step, then the sleep
run_thread_bp ==
    /\ BagIn("bp", threads)
    /\ IF vm.reg[R_PC] \in vm.breakpoints
       THEN /\ vm' = [vm EXCEPT !.running = FALSE]
            /\ threads' = threads (-) Thread("bp")
       ELSE /\ vm' = vm
            /\ threads' = (threads (-) Thread("bp")) (+) Thread("while")
    /\ last' = Call("thread_bp", "None", -1, -1)
    /\ UNCHANGED <<gui, asm>>

\* step_program variant: step_mode is not set
step_program_no_mode ==
    /\ GuiIdle
    /\ IF ~vm.halted
       THEN /\ InWindow(vm.reg[R_PC])
            /\ Len(vm.output_buffer) < MaxOut
            /\ LET r == step(vm)
               IN  /\ vm' = IF r.ret = "IndexError" THEN r.vm ELSE update_output(r.vm)
                   /\ last' = Call("step_program", r.ret, r.instr, r.at)
       ELSE /\ vm' = vm
            /\ last' = Call("step_program", "None", -1, -1)
    /\ UNCHANGED <<threads, gui, asm>>

\* step_program: an exception of step leaves the handler before update_display
step_program ==
    /\ GuiIdle
    /\ IF ~vm.halted
       THEN /\ InWindow(vm.reg[R_PC])
            /\ Len(vm.output_buffer) < MaxOut
            /\ LET r == step([vm EXCEPT !.step_mode = TRUE])
               IN  /\ vm' = IF r.ret = "IndexError" THEN r.vm ELSE update_output(r.vm)
                   /\ last' = Call("step_program", r.ret, r.instr, r.at)
       ELSE /\ vm' = vm
            /\ last' = Call("step_program", "None", -1, -1)
    /\ UNCHANGED <<threads, gui, asm>>

stop_program ==
    /\ GuiIdle
    /\ vm' = [vm EXCEPT !.running = FALSE]
    /\ last' = Call("stop_program", "None", -1, -1)
    /\ UNCHANGED <<threads, gui, asm>>

reset_program ==
    /\ GuiIdle
    /\ vm' = update_output(reset([vm EXCEPT !.running = FALSE]))
    /\ last' = Call("reset_program", "None", -1, -1)
    /\ UNCHANGED <<threads, gui, asm>>

\* LC3Debugger.load_program with the bytes of the chosen file
open_program(data) ==
    /\ GuiIdle
    /\ Dirty(vm) <= MaxDirty
    /\ LET r == load_program(vm, data)
       IN  /\ vm' = IF r.ret = "True" THEN update_output(r.vm) ELSE vm
           /\ last' = Call("open_program", r.ret, -1, -1)
    /\ UNCHANGED <<threads, gui, asm>>

add_breakpoint(addr) ==
    /\ GuiIdle
    /\ vm' = IF 0 <= addr /\ addr < MAX_MEMORY
             THEN [vm EXCEPT !.breakpoints = @ \cup {addr}]
             ELSE vm
    /\ last' = Call("add_breakpoint", "None", -1, -1)
    /\ UNCHANGED <<threads, gui, asm>>

remove_breakpoint(addr) ==
    /\ GuiIdle
    /\ vm' = [vm EXCEPT !.breakpoints = @ \ {addr}]
    /\ last' = Call("remove_breakpoint", "None", -1, -1)
    /\ UNCHANGED <<threads, gui, asm>>

\* send_input variant: the run is started whether or not the machine waits
send_input_always_runs(text) ==
    /\ GuiIdle
    /\ Len(vm.input_buffer) + Len(text) <= MaxIn
    /\ IF text # <<>>
       THEN LET fed == update_output([vm EXCEPT !.input_buffer = @ \o text])
            IN  IF ~fed.halted
                THEN LET resumed == [fed EXCEPT !.wait_for_input = FALSE]
                         r == start_run(resumed, threads)
                     IN  CanStart(resumed) /\ vm' = r.vm /\ threads' = r.threads
                ELSE vm' = fed /\ threads' = threads
       ELSE vm' = vm /\ threads' = threads
    /\ last' = Call("send_input", "None", -1, -1)
    /\ UNCHANGED <<gui, asm>>

\* send_input variant: the text is put in front of the queued characters
send_input_prepends(text) ==
    /\ GuiIdle
    /\ Len(vm.input_buffer) + Len(text) <= MaxIn
    /\ IF text # <<>>
       THEN LET fed == update_output([vm EXCEPT !.input_buffer = text \o @])
            IN  IF ~fed.halted /\ fed.wait_for_input
                THEN LET resumed == [fed EXCEPT !.wait_for_input = FALSE]
                         r == start_run(resumed, threads)
                     IN  CanStart(resumed) /\ vm' = r.vm /\ threads' = r.threads
                ELSE vm' = fed /\ threads' = threads
       ELSE vm' = vm /\ threads' = threads
    /\ last' = Call("send_input", "None", -1, -1)
    /\ UNCHANGED <<gui, asm>>

send_input(text) ==
    /\ GuiIdle
    /\ Len(vm.input_buffer) + Len(text) <= MaxIn
    /\ IF text # <<>>
       THEN LET fed == update_output([vm EXCEPT !.input_buffer = @ \o text])
            IN  IF ~fed.halted /\ fed.wait_for_input
                THEN LET resumed == [fed EXCEPT !.wait_for_input = FALSE]
                         r == start_run(resumed, threads)
                     IN  CanStart(resumed) /\ vm' = r.vm /\ threads' = r.threads
                ELSE vm' = fed /\ threads' = threads
       ELSE vm' = vm /\ threads' = threads
    /\ last' = Call("send_input", "None", -1, -1)
    /\ UNCHANGED <<gui, asm>>

\* the periodic update_display, as far as the first two lines of its
\* update_output: if self.vm.output_buffer: output = ''.join(...)
update_display ==
    /\ GuiIdle
    /\ vm.output_buffer # <<>>
    /\ gui' = [at |-> "joined", output |-> vm.output_buffer]
    /\ last' = Call("update_display", "None", -1, -1)
    /\ UNCHANGED <<vm, threads, asm>>

\* the rest of that update_output: self.vm.output_buffer.clear(), and the
\* joined string is inserted in the console
update_output_clear ==
    /\ gui.at = "joined"
    /\ vm' = update_output(vm)
    /\ gui' = [at |-> "idle", output |-> <<>>]
    /\ last' = Call("update_output_clear", "None", -1, -1)
    /\ UNCHANGED <<threads, asm>>

Next ==
    \/ run_program
    \/ run_thread_while
    \/ run_thread_step
    \/ run_thread_failed
    \/ run_thread_bp
    \/ step_program
    \/ stop_program
    \/ reset_program
    \/ \E data \in ImagesRun : open_program(data)
    \/ \E addr \in BpAddrs : add_breakpoint(addr)
    \/ \E addr \in BpAddrs : remove_breakpoint(addr)
    \/ \E text \in Texts : send_input(text)
    \/ update_display
    \/ update_output_clear

Spec == Init /\ [][Next]_vars

(***************************************************************************)
(* Properties                                                              *)
(***************************************************************************)
Opcode(instr) == Shr(instr, 12)
TrapCode(instr) == BitAnd(instr, 255)
DestReg(instr) == BitAnd(Shr(instr, 9), 7)

\* the call l was a vm.step that fetched an instruction
Executed(l) == l.op \in {"step", "step_program", "thread_step"} /\ l.instr # -1

\* the instructions that end in update_flags
FlagWriters == {ADD, AND, NOT, LD, LDI, LDR, LEA}

\* the call l was a GETC or IN that took a character
ReadsChar(l) ==
    /\ Executed(l) /\ Opcode(l.instr) = TRAP
    /\ TrapCode(l.instr) \in {TRAP_GETC, TRAP_IN} /\ l.ret = "True"

\* the call l was a GETC or IN that found the input buffer empty
WaitsForChar(l) ==
    /\ Executed(l) /\ Opcode(l.instr) = TRAP
    /\ TrapCode(l.instr) \in {TRAP_GETC, TRAP_IN} /\ l.ret = "False"

\* the call l executed an instruction that writes a general register
WritesRegister(l) ==
    Executed(l) /\ Opcode(l.instr) \in FlagWriters \cup {JSR, TRAP}

\* the register whose write the claim is about: DR, R0 of GETC/IN, else R7
WrittenReg(l) ==
    IF Opcode(l.instr) \in FlagWriters THEN DestReg(l.instr)
    ELSE IF ReadsChar(l) THEN R_R0
    ELSE R_R7

\* N if bit 15 is set, Z if the value is zero, P otherwise
SignClass(x) ==
    IF BitAnd(Shr(x, 15), 1) = 1 THEN FL_NEG
    ELSE IF x = 0 THEN FL_ZERO
    ELSE FL_POS

\* Z if the value is zero, N if it is x8000 or more, P otherwise
CodeClass(x) ==
    IF x = 0 THEN FL_ZERO
    ELSE IF x >= 32768 THEN FL_NEG
    ELSE FL_POS

\* C1, as stated: after a step of any instruction that writes a general
\* register (JSR, JSRR and TRAP writing R7 included) COND is the sign
\* classification of the value written.
C1_Original ==
    (last.op = "step" /\ WritesRegister(last))
        => vm.reg[R_COND] = SignClass(vm.reg[WrittenReg(last)])

\* C1, amended: after a step of ADD, AND, NOT, LD, LDI, LDR, LEA, or of a
\* GETC/IN that takes a character, COND is Z if the value written is zero,
\* N if it is x8000 or more and P otherwise; a step of JSR, JSRR or of any
\* other TRAP writes R7 and leaves COND as it was.
C1_FlagsFollowWrite ==
    [][(last'.op = "step" /\ WritesRegister(last'))
          => IF Opcode(last'.instr) \in FlagWriters \/ ReadsChar(last')
             THEN vm'.reg[R_COND] = CodeClass(vm'.reg[WrittenReg(last')])
             ELSE vm'.reg[R_COND] = vm.reg[R_COND]]_vars

C1_Witness ==
    /\ last.op = "step" /\ Executed(last)
    /\ Opcode(last.instr) = NOT
    /\ vm.reg[DestReg(last.instr)] >= 32768
    /\ vm.reg[R_COND] = FL_NEG

\* C2: in every reachable state of the debugger COND is one of N=4, Z=2, P=1.
C2_CondIsOneFlag == vm.reg[R_COND] \in {FL_NEG, FL_ZERO, FL_POS}

C2_Witness ==
    /\ last.op = "thread_step" /\ Executed(last)
    /\ vm.reg[R_COND] = FL_NEG

\* C3, as stated: every register R0..R7, the PC and every memory cell holds
\* a value in 0..xFFFF.
C3_Original ==
    /\ \A r \in 0..R_PC : vm.reg[r] \in 0..65535
    /\ \A a \in DOMAIN vm.memory : vm.memory[a] \in 0..65535

\* C4: reset_program with no engine thread alive leaves memory zero, R0..R7
\* zero, COND = Z, PC = x3000, halted and wait_for_input false, both buffers
\* empty and the breakpoint set as it was.
C4_ResetState ==
    [][(last'.op = "reset_program" /\ threads = EmptyBag)
          => /\ \A a \in DOMAIN vm.memory \cup DOMAIN vm'.memory :
                    Mem(vm'.memory, a) = 0
             /\ \A r \in R_R0..R_R7 : vm'.reg[r] = 0
             /\ vm'.reg[R_COND] = FL_ZERO
             /\ vm'.reg[R_PC] = 12288
             /\ ~vm'.halted /\ ~vm'.wait_for_input
             /\ vm'.input_buffer = <<>> /\ vm'.output_buffer = <<>>
             /\ vm'.breakpoints = vm.breakpoints]_vars

C4_Witness ==
    /\ last.op = "reset_program" /\ threads = EmptyBag
    /\ vm.breakpoints # {} /\ vm.step_mode
    /\ vm.reg[R_PC] = 12288 /\ vm.memory = ZeroMemory

\* C5: load_program on at least two bytes takes the first big-endian word
\* as origin, stores the i-th following big-endian word at origin+i while
\* origin+i < 2^16, drops the words past the end and an odd last byte, sets
\* PC = origin and changes nothing else.  Checked for every image, loaded
\* over every reachable machine.
WordOf(data, i) == data[2 * i + 3] * 256 + data[2 * i + 4]
NumWords(data) == (Len(data) - 2) \div 2

C5_Load ==
    \A data \in Images :
        Len(data) >= 2 =>
            LET r == load_program(vm, data)
                origin == data[1] * 256 + data[2]
                stored == {a \in origin..(origin + NumWords(data) - 1) : a < 65536}
            IN  /\ r.ret = "True"
                /\ r.vm.reg[R_PC] = origin
                /\ \A a \in stored : Mem(r.vm.memory, a) = WordOf(data, a - origin)
                /\ \A a \in (DOMAIN vm.memory \cup DOMAIN r.vm.memory) \ stored :
                       Mem(r.vm.memory, a) = Mem(vm.memory, a)
                /\ \A x \in 0..R_COUNT - 1 : x # R_PC => r.vm.reg[x] = vm.reg[x]
                /\ [r.vm EXCEPT !.memory = vm.memory, !.reg = vm.reg] = vm

C5_Witness ==
    /\ last.op = "load_program" /\ last.ret = "True"
    /\ vm.reg[R_PC] = 65535
    /\ Mem(vm.memory, 65535) = 61472 /\ Mem(vm.memory, 0) = 0
    /\ vm.input_buffer # <<>>

\* C6: when halted or wait_for_input is set, step returns False and changes
\* nothing of the machine.
C6_StepRefused ==
    [][(last'.op = "step" /\ (vm.halted \/ vm.wait_for_input))
          => vm' = vm /\ last'.ret = "False" /\ last'.instr = -1]_vars

C6_Witness ==
    /\ last.op = "step" /\ last.ret = "False" /\ last.instr = -1
    /\ vm.wait_for_input /\ vm.input_buffer # <<>>

\* C7: a GETC or IN executed with the input buffer empty sets wait_for_input,
\* leaves PC at the address of the TRAP and leaves R0, COND, memory and both
\* buffers as they were.
C7_WaitKeepsState ==
    [][(last'.op = "step" /\ Executed(last') /\ Opcode(last'.instr) = TRAP
          /\ TrapCode(last'.instr) \in {TRAP_GETC, TRAP_IN}
          /\ vm.input_buffer = <<>>)
          => /\ vm'.wait_for_input
             /\ vm'.reg[R_PC] = last'.at
             /\ vm'.reg[R_PC] = Mask16(vm.reg[R_PC])
             /\ vm'.reg[R_R0] = vm.reg[R_R0]
             /\ vm'.reg[R_COND] = vm.reg[R_COND]
             /\ vm'.memory = vm.memory
             /\ vm'.input_buffer = <<>>
             /\ vm'.output_buffer = vm.output_buffer]_vars

C7_Witness ==
    /\ last.op = "step" /\ WaitsForChar(last)
    /\ vm.wait_for_input
    /\ vm.reg[R_PC] = 65535 /\ vm.reg[R_R7] = 0

\* C8, as stated: a GETC executed with a non-empty input buffer removes the
\* oldest character and leaves its code in the low 8 bits of R0 with bits
\* 15..8 zero, for every character that can be in the buffer.
C8_Original ==
    [][(last'.op = "step" /\ Executed(last') /\ Opcode(last'.instr) = TRAP
          /\ TrapCode(last'.instr) = TRAP_GETC /\ vm.input_buffer # <<>>)
          => /\ vm'.input_buffer = Tail(vm.input_buffer)
             /\ BitAnd(vm'.reg[R_R0], 255) = BitAnd(ord(Head(vm.input_buffer)), 255)
             /\ BitAnd(Shr(vm'.reg[R_R0], 8), 255) = 0]_vars

C10_KbsrRead ==
    \A address \in {MR_KBSR, MR_KBSR + 65536} :
        LET r == mem_read(vm, address)
        IN  IF vm.input_buffer # <<>>
            THEN /\ r.vm.input_buffer = Tail(vm.input_buffer)
                 /\ Mem(r.vm.memory, MR_KBDR) = ord(Head(vm.input_buffer))
                 /\ BitAnd(Shr(r.val, 15), 1) = 1
                 /\ r.val = Mem(r.vm.memory, MR_KBSR)
            ELSE /\ Mem(r.vm.memory, MR_KBSR) = 0
                 /\ r.val = 0
                 /\ Mem(r.vm.memory, MR_KBDR) = Mem(vm.memory, MR_KBDR)
                 /\ r.vm.input_buffer = vm.input_buffer

C10_Witness ==
    /\ last.op = "step" /\ Executed(last) /\ Opcode(last.instr) = LDI
    /\ Mem(vm.memory, MR_KBSR) = 32768
    /\ Mem(vm.memory, MR_KBDR) = 65313
    /\ vm.reg[R_R0] = 32768
    /\ vm.input_buffer = <<65>>

\* C11: for every address a outside KBSR and KBDR and every integer v,
\* mem_read(a) right after mem_write(a, v) returns v & xFFFF, the write
\* changes no other memory cell and nothing but memory, and the read changes
\* nothing.  Checked for a write made to every reachable machine, with
\* addresses and values below 0 and above xFFFF among them.
WriteAddrs == {0, 12288, 12289, 65023, 65025, 65027, 65535, 65536 + 12289, -1}
WriteVals == {0, 1, 255, 32768, 65535, 65536, 65537, 74565, -1, -32768}

C11_WriteThenRead ==
    \A a \in WriteAddrs : \A val \in WriteVals :
        LET w == mem_write(vm, a, val)
            r == mem_read(w, a)
        IN  /\ r.val = val % 65536
            /\ r.val \in 0..65535
            /\ r.vm = w
            /\ \A x \in (DOMAIN vm.memory \cup DOMAIN w.memory) \ {a % 65536} :
                   Mem(w.memory, x) = Mem(vm.memory, x)
            /\ [w EXCEPT !.memory = vm.memory] = vm

\* a store followed by a load of the stored cell, in a program
C11_Witness ==
    /\ last.op = "step" /\ Executed(last) /\ Opcode(last.instr) = LD
    /\ vm.reg[2] = 12299 /\ vm.reg[1] = 12299
    /\ Mem(vm.memory, 12299) = 12299

\* C12: after a step that executes a TRAP, whatever its vector and whether
\* the service completes, waits for input or halts, R7 is the address of the
\* TRAP plus one modulo 2^16.  Stated for the step taken, and for a TRAP of
\* each vector x00..xFF placed at the PC of a machine just loaded, with and
\* without input queued.
C12_TrapSavesReturn ==
    [][/\ (last'.op = "step" /\ Executed(last') /\ Opcode(last'.instr) = TRAP)
            => vm'.reg[R_R7] = (last'.at + 1) % 65536
       /\ (last'.op = "load_program" /\ last.op \in {"reset", "input"}
              /\ ~vm'.halted /\ ~vm'.wait_for_input)
            => \A vector \in 0..255 :
                  LET pc == vm'.reg[R_PC] % 65536
                      r == step([vm' EXCEPT !.memory = MemSet(@, pc, 61440 + vector)])
                  IN  /\ r.instr = 61440 + vector /\ r.at = pc
                      /\ r.vm.reg[R_R7] = (pc + 1) % 65536]_vars

\* GETC at xFFFF entering the input wait: R7 = 0; and an unknown vector
C12_Witness ==
    /\ last.op = "step" /\ Executed(last) /\ last.instr = 61695
    /\ vm.reg[R_R7] = last.at + 1
    /\ last.ret = "True"

\* C13, as stated: TRAP PUTSP appends to the output buffer, for each word
\* from address R0 up to the first zero word, its low byte and then its high
\* byte, a zero byte skipped, the address wrapping from xFFFF to 0; for
\* every value R0 can hold.
PackedLen(m, start) ==
    CHOOSE n \in 0..8 :
        /\ Mem(m, (start + n) % 65536) = 0
        /\ \A k \in 0..(n - 1) : Mem(m, (start + k) % 65536) # 0

RECURSIVE PackedBytes(_, _, _)
PackedBytes(m, start, n) ==
    IF n = 0 THEN <<>>
    ELSE LET word == Mem(m, (start + n - 1) % 65536)
             lo == word % 256
             hi == (word \div 256) % 256
         IN  PackedBytes(m, start, n - 1)
               \o (IF lo # 0 THEN <<chr(lo)>> ELSE <<>>)
               \o (IF hi # 0 THEN <<chr(hi)>> ELSE <<>>)

C13_Original ==
    [][(last'.op = "step" /\ Executed(last') /\ Opcode(last'.instr) = TRAP
          /\ TrapCode(last'.instr) = TRAP_PUTSP)
          => /\ last'.ret = "True"
             /\ vm'.output_buffer = vm.output_buffer
                   \o PackedBytes(vm.memory, vm.reg[R_R0],
                                  PackedLen(vm.memory, vm.reg[R_R0]))]_vars

\* C13 for a start address in 0..xFFFF
C13_InRange ==
    [][(last'.op = "step" /\ Executed(last') /\ Opcode(last'.instr) = TRAP
          /\ TrapCode(last'.instr) = TRAP_PUTSP /\ vm.reg[R_R0] \in 0..65535)
          => /\ last'.ret = "True"
             /\ vm'.output_buffer = vm.output_buffer
                   \o PackedBytes(vm.memory, vm.reg[R_R0],
                                  PackedLen(vm.memory, vm.reg[R_R0]))]_vars

C13_InRangeWitness ==
    /\ last.op = "step" /\ Executed(last) /\ TrapCode(last.instr) = TRAP_PUTSP
    /\ vm.reg[R_R0] = 65535
    /\ vm.output_buffer = <<chr(66), chr(65), chr(67)>>

\* the number of live engine threads; an engine thread ends in this step
Alive == BagCardinality(threads)
ThreadEnds == BagCardinality(threads') < BagCardinality(threads)

\* the engine loop has just executed an instruction that left PC on a
\* breakpoint address
ArrivesAtBreakpoint ==
    /\ last'.op = "thread_step" /\ Executed(last')
    /\ vm'.reg[R_PC] \in vm'.breakpoints

\* the three tests of breakpoints a run makes: after an instruction, PC in
\* the set ends the loop there, with running cleared and nothing else
\* changed, and PC outside the set lets it go on; and while step_mode is off
\* (as run_program sets it) the loop executes no instruction at a breakpoint
\* address
BreakpointTests ==
    /\ (last'.op = "thread_bp" /\ vm.reg[R_PC] \in vm.breakpoints)
         => /\ ThreadEnds
            /\ vm' = [vm EXCEPT !.running = FALSE]
    /\ (last'.op = "thread_bp" /\ vm.reg[R_PC] \notin vm.breakpoints)
         => /\ ~ThreadEnds /\ vm' = vm
    /\ (last'.op = "thread_step" /\ vm.reg[R_PC] \in vm.breakpoints
           /\ ~vm.step_mode)
         => /\ last'.instr = -1 /\ vm' = vm
    /\ ArrivesAtBreakpoint
         => /\ ~BagIn("step", threads') \/ Alive > 1
            /\ last'.ret = "True" => BagIn("bp", threads')
            /\ last'.ret = "False" => BagIn("failed", threads')

\* C14, as stated: a run started off a breakpoint leaves the engine loop the
\* first time PC becomes a breakpoint address, the instructions before it
\* executed and the one at the address not, with PC at the address and
\* halted false.
C14_Original ==
    [][/\ BreakpointTests
       /\ ArrivesAtBreakpoint => ~vm'.halted]_vars

\* C14, amended: as stated, but halted is false unless the instruction that
\* brought PC to the breakpoint address was a HALT, after which the loop
\* ends at the breakpoint address with halted true.
C14_StopsAtBreakpoint ==
    [][/\ BreakpointTests
       /\ ArrivesAtBreakpoint
            => (vm'.halted <=> (Opcode(last'.instr) = TRAP
                                  /\ TrapCode(last'.instr) = TRAP_HALT))]_vars

\* a run stopped at x3001 after its GETC took "B" of "BC"
C14_Witness ==
    /\ last.op = "thread_bp" /\ threads = EmptyBag
    /\ vm.breakpoints = {12289} /\ vm.reg[R_PC] = 12289
    /\ vm.reg[R_R0] = 66 /\ vm.input_buffer = <<67>>
    /\ vm.output_buffer = <<>>
    /\ ~vm.halted /\ ~vm.running /\ ~vm.step_mode

\* C15: step_program with no engine thread alive, on a machine neither
\* halted nor waiting, has the effect of one step of the same machine without
\* breakpoints (the instruction at PC is fetched and executed, the output
\* moved to the console), whether or not PC is in the breakpoint set; the
\* bypass is step_mode, which only step_program sets and which every start
\* of an engine loop clears, so that the loop stops at breakpoints.
C15_StepBypassesBreakpoint ==
    [][/\ (last'.op = "step_program" /\ threads = EmptyBag
              /\ ~vm.halted /\ ~vm.wait_for_input)
            => LET r == step([vm EXCEPT !.breakpoints = {}])
                   shown == IF r.ret = "IndexError" THEN r.vm ELSE update_output(r.vm)
               IN  /\ last'.instr = Mem(vm.memory, vm.reg[R_PC] % 65536)
                   /\ last'.at = vm.reg[R_PC] % 65536
                   /\ last'.instr = r.instr
                   /\ vm' = [shown EXCEPT !.breakpoints = vm.breakpoints,
                                          !.step_mode = TRUE]
       /\ (vm'.step_mode /\ ~vm.step_mode) => last'.op = "step_program"
       /\ (last'.op \in {"run_program", "send_input"} /\ threads' # threads)
            => ~vm'.step_mode]_vars

\* a step taken at a breakpoint address
C15_Witness ==
    /\ last.op = "step_program" /\ threads = EmptyBag
    /\ last.at = 12289 /\ last.at \in vm.breakpoints
    /\ last.instr = 4135 /\ vm.reg[R_PC] = 12290 /\ vm.reg[R_R0] = 7
    /\ vm.step_mode

\* C16, as stated: the engine loop tests its exit conditions, the
\* breakpoint set among them, only after a step, so that a step of the loop
\* on a machine neither halted nor waiting executes the instruction at PC,
\* also when PC is in the breakpoint set (as at the start of a run at a
\* breakpoint address).
C16_Original ==
    [][(last'.op = "thread_step" /\ ~vm.halted /\ ~vm.wait_for_input)
          => /\ last'.instr # -1
             /\ last'.at = vm.reg[R_PC] % 65536]_vars

\* C17, as stated: whenever an engine loop ends, the machine is halted or
\* waiting for input, or running had been cleared (stop_program,
\* reset_program), or PC is in the breakpoint set.  The loop ends when its
\* step does not return True (it then clears running itself), at its
\* breakpoint test, or at its loop test.
C17_Original ==
    [][((last'.op = "thread_step" /\ last'.ret # "True")
          \/ (last'.op \in {"thread_bp", "thread_while"} /\ ThreadEnds))
          => \/ vm'.halted
             \/ vm'.wait_for_input
             \/ ~vm.running
             \/ vm'.reg[R_PC] \in vm'.breakpoints]_vars

\* C17 for a loop that does not end in an exception
C17_NoException ==
    [][((last'.op = "thread_step" /\ last'.ret = "False")
          \/ (last'.op \in {"thread_bp", "thread_while"} /\ ThreadEnds))
          => \/ vm'.halted
             \/ vm'.wait_for_input
             \/ ~vm.running
             \/ vm'.reg[R_PC] \in vm'.breakpoints]_vars

\* C18, as stated: after a stop_program made during a run, and with no
\* run_program or send_input after it, the engine executes at most one more
\* instruction and running stays false.
C18_Original ==
    last.after_stop >= 0 => (last.after_stop <= 1 /\ ~vm.running)

\* C19, as stated: send_input of at least one character to a machine
\* suspended on GETC/IN clears wait_for_input and leaves an engine loop that
\* will execute the pending TRAP (running set, and a thread at its loop test
\* or about to step), wherever the thread that suspended is.
C19_Original ==
    [][(last'.op = "send_input" /\ vm.wait_for_input /\ ~vm.halted
          /\ vm'.input_buffer # vm.input_buffer)
          => /\ ~vm'.wait_for_input
             /\ vm'.running
             /\ BagIn("while", threads') \/ BagIn("step", threads')]_vars

\* the state C19 excludes: at rest with input queued at a pending GETC/IN
C19_AtRest ==
    /\ threads = EmptyBag /\ ~vm.running
    /\ vm.input_buffer # <<>> /\ ~vm.wait_for_input /\ ~vm.halted
    /\ vm.reg[R_PC] \notin vm.breakpoints
    /\ Mem(vm.memory, vm.reg[R_PC]) = 61472
    /\ vm.reg[R_R7] = vm.reg[R_PC] + 1
    /\ last.op = "thread_failed"

\* C20: send_input to a machine that is not waiting for input appends the
\* characters of the text, in order, to the tail of the input buffer; no
\* register, memory cell, flag or breakpoint changes and no engine thread is
\* started (the pending output is moved to the console).
C20_InputBuffered ==
    [][(last'.op = "send_input" /\ ~vm.wait_for_input)
          => /\ \E text \in Texts : vm'.input_buffer = vm.input_buffer \o text
             /\ Len(vm'.input_buffer) >= Len(vm.input_buffer)
             /\ SubSeq(vm'.input_buffer, 1, Len(vm.input_buffer)) = vm.input_buffer
             /\ vm'.reg = vm.reg /\ vm'.memory = vm.memory
             /\ vm'.halted = vm.halted /\ vm'.running = vm.running
             /\ ~vm'.wait_for_input /\ vm'.step_mode = vm.step_mode
             /\ vm'.breakpoints = vm.breakpoints
             /\ threads' = threads]_vars

\* U+10041 buffered behind the "C" left of "BC", on a machine at rest
C20_Witness ==
    /\ last.op = "send_input" /\ threads = EmptyBag
    /\ ~vm.running /\ ~vm.wait_for_input /\ ~vm.halted
    /\ vm.input_buffer = <<67, 65601>>
    /\ vm.reg[R_R0] = 66 /\ vm.reg[R_PC] = 12289

\* C21: the input buffer is a queue between two resets.  A step of the
\* debugger leaves it as it was, or is a send_input that puts its text, in
\* order, behind the characters queued, or is an instruction that takes the
\* oldest character and no other and delivers it (GETC and IN to R0, a read
\* of KBSR to KBDR), or is a reset, which empties it.  So the characters
\* consumed, in order, are a prefix of the texts sent, in order: none is
\* skipped, reordered or consumed twice.
C21_InputFifo ==
    [][\/ vm'.input_buffer = vm.input_buffer
       \/ /\ last'.op = "send_input"
          /\ \E text \in Texts \ {<<>>} : vm'.input_buffer = vm.input_buffer \o text
       \/ /\ Executed(last')
          /\ vm.input_buffer # <<>>
          /\ vm'.input_buffer = Tail(vm.input_buffer)
          /\ IF Opcode(last'.instr) = TRAP
             THEN /\ TrapCode(last'.instr) \in {TRAP_GETC, TRAP_IN}
                  /\ vm'.reg[R_R0] = ord(Head(vm.input_buffer))
             ELSE /\ Mem(vm'.memory, MR_KBDR) = ord(Head(vm.input_buffer))
                  /\ Mem(vm'.memory, MR_KBSR) = 32768
       \/ /\ last'.op = "reset_program"
          /\ vm'.input_buffer = <<>>]_vars

\* "BC" sent, "B" taken by a read of KBSR and then "C" by IN
C21_Witness ==
    /\ last.op = "thread_step" /\ Executed(last)
    /\ TrapCode(last.instr) = TRAP_IN /\ Opcode(last.instr) = TRAP
    /\ Mem(vm.memory, MR_KBDR) = 66 /\ vm.reg[R_R0] = 67
    /\ vm.input_buffer = <<>>

\* a is an initial part of b
IsPrefix(a, b) == Len(a) <= Len(b) /\ SubSeq(b, 1, Len(a)) = a

\* C22: what the console is given is a prefix of what the program emitted
\* and nothing emitted is lost.  An instruction of the engine loop only
\* appends to the output buffer, and the periodic drain removes from the
\* buffer exactly the characters it joined for the console, also when
\* instructions of a running engine loop come between its two steps.
C22_Original ==
    [][/\ (last'.op = "thread_step" /\ Executed(last'))
             => IsPrefix(vm.output_buffer, vm'.output_buffer)
       /\ last'.op = "update_output_clear" => vm.output_buffer = gui.output]_vars

\* the engine threads that have passed the loop test and are about to call
\* vm.step()
Stepping == CopiesIn("step", threads)

\* C23: at most one engine loop is about to execute an instruction at any
\* time, also when run follows a stop at once.
C23_Original == Stepping <= 1

\* C24: a step() of the front end executes no instruction while an engine
\* loop is alive on a running machine.
C24_Original ==
    [][(last'.op = "step_program" /\ Executed(last'))
          => ~(vm.running /\ threads # EmptyBag)]_vars

\* C25: the step that follows a reset() is not an instruction of the run
\* that the reset abandoned: the engine thread that was about to call
\* vm.step() leaves the fresh state as it is.
C25_Original ==
    [][(last.op = "reset_program" /\ last'.op = "thread_step")
          => (~Executed(last') /\ vm'.reg = vm.reg /\ vm'.memory = vm.memory)]_vars

(***************************************************************************)
(* The assembler driven on inputs (specification SpecAsm).                 *)
(*                                                                         *)
(* The initial state holds a fresh assembler object and one input: the     *)
(* arguments of a call of sign_extend, the text of one instruction, or a   *)
(* source file.  An instruction is assembled by assemble_instruction and   *)
(* the word is then executed by step() of a machine whose registers and    *)
(* memory cells all differ, so that the fields the machine decodes show in *)
(* its state.  A source file goes through assemble_file: first_pass and    *)
(* second_pass, one step per line, then write_obj_file.  The record asm    *)
(* holds the object (self), how far the run is (at, i), what the calls     *)
(* returned (ret, ret_vm, exc, obj) and, for the claims, the value of      *)
(* self.pc and of len(self.memory) before each line (lc1, lc2, base).      *)
(***************************************************************************)
\* how many values beyond each end of a field's range the inputs go
MaxOver == 2


\* the width of the signed field of an instruction (TRAP: of its vector)
Width(op) ==
    IF op \in {"ADD", "AND"} THEN 5
    ELSE IF op \in {"LDR", "STR"} THEN 6
    ELSE IF op = "JSR" THEN 11
    ELSE IF op = "TRAP" THEN 8
    ELSE 9

\* the values tried for a signed field of w bits
Values(w) == (0 - (2 ^ (w - 1)) - MaxOver) .. ((2 ^ (w - 1)) - 1 + MaxOver)

SignExtendInputs ==
    UNION {{Input("sign_extend", "", "", bits, 0, 0, x, <<>>) :
               x \in 0 .. ((2 ^ bits) - 1)} : bits \in {5, 6, 9, 11}}

InstructionInputs ==
    {Input("instruction", op, "imm", 2, 5, 0, v, <<>>) :
        op \in {"ADD", "AND"}, v \in Values(5)}
    \cup {Input("instruction", op, "imm", r1, r2, 0, -3, <<>>) :
        op \in {"ADD", "AND"}, r1 \in 0..7, r2 \in 0..7}
    \cup {Input("instruction", op, "reg", r1, r2, r3, 0, <<>>) :
        op \in {"ADD", "AND"}, r1 \in 0..7, r2 \in {1, 6}, r3 \in 0..7}
    \cup {Input("instruction", "NOT", "reg", r1, r2, 0, 0, <<>>) :
        r1 \in 0..7, r2 \in 0..7}
    \cup {Input("instruction", op, "imm", 3, 6, 0, v, <<>>) :
        op \in {"LDR", "STR"}, v \in Values(6)}
    \cup {Input("instruction", op, "imm", r1, r2, 0, -2, <<>>) :
        op \in {"LDR", "STR"}, r1 \in 0..7, r2 \in 0..7}
    \cup {Input("instruction", op, "imm", 4, 0, 0, v, <<>>) :
        op \in {"LD", "ST", "LDI", "STI", "LEA"}, v \in Values(9)}
    \cup {Input("instruction", op, "imm", r1, 0, 0, -5, <<>>) :
        op \in {"LD", "ST", "LDI", "STI", "LEA"}, r1 \in 0..7}
    \cup {Input("instruction", "BR", "imm", 0, 0, 0, v, <<>>) : v \in Values(9)}
    \cup {Input("instruction", "BRnzp", "imm", 0, 0, 0, v, <<>>) : v \in {-256, 255}}
    \cup {Input("instruction", "JSR", "imm", 0, 0, 0, v, <<>>) : v \in Values(11)}
    \cup {Input("instruction", "JMP", "reg", 0, r2, 0, 0, <<>>) : r2 \in 0..7}
    \cup {Input("instruction", "JSRR", "reg", 0, r2, 0, 0, <<>>) : r2 \in 0..6}
    \cup {Input("instruction", "TRAP", "imm", 0, 0, 0, v, <<>>) :
        v \in (0 - MaxOver) .. (255 + MaxOver)}
    \cup {Input("instruction", "TRAP", "hex", 0, 0, 0, v, <<>>) :
        v \in 0 .. (255 + MaxOver)}

\* The lines of a source file.  A body line is a record [op, t, text]: op
\* is the mnemonic of a PC-relative instruction that refers to the label
\* Lt, or "" for a line given by its text.
QUOTE == <<34>>
BACKSLASH == <<92>>
Fillers ==
    {Str(<<".", "F", "I", "L", "L", " ", "#", "-", "2">>),
     Str(<<".", "B", "L", "K", "W", " ", "0">>),
     Str(<<".", "B", "L", "K", "W", " ", "3">>),
     Str(<<"A", "D", "D", " ", "R", "0", ",", "R", "0", ",", "#", "1", " ", ";", " ", "i", "n", "c">>),
     Str(<<".", "S", "T", "R", "I", "N", "G", "Z", " ">>) \o QUOTE \o QUOTE,
     Str(<<".", "S", "T", "R", "I", "N", "G", "Z", " ">>) \o QUOTE
         \o Str(<<"H", "i">>) \o QUOTE,
     Str(<<".", "S", "T", "R", "I", "N", "G", "Z", " ">>) \o QUOTE
         \o Str(<<"a">>) \o BACKSLASH \o Str(<<"n">>) \o BACKSLASH \o BACKSLASH
         \o Str(<<"t">>) \o QUOTE,
     Str(<<".", "s", "t", "r", "i", "n", "g", "z", " ">>) \o QUOTE
         \o Str(<<"q">>) \o BACKSLASH \o QUOTE \o Str(<<" ", "z">>) \o BACKSLASH \o QUOTE
         \o QUOTE}

SecondFillers ==
    {Str(<<".", "F", "I", "L", "L", " ", "x", "F", "F", "F", "F">>),
     Str(<<".", "B", "L", "K", "W", " ", "#", "2", "6", "0">>),
     Str(<<".", "S", "T", "R", "I", "N", "G", "Z", " ">>) \o QUOTE
         \o BACKSLASH \o Str(<<"t", "x">>) \o BACKSLASH \o QUOTE}

PcRelative == {"BRnzp", "LD", "ST", "LDI", "STI", "LEA", "JSR"}

Item(op, t, text) == [op |-> op, t |-> t, text |-> text]

\* the instruction at body line 1, 2 or 3, the other two lines fillers
Bodies ==
    {<<Item(op, t, <<>>), Item("", 0, f), Item("", 0, g)>> :
        op \in PcRelative, t \in 1..4, f \in Fillers, g \in SecondFillers}
    \cup {<<Item("", 0, f), Item(op, t, <<>>), Item("", 0, g)>> :
        op \in PcRelative, t \in 1..4, f \in Fillers, g \in SecondFillers}
    \cup {<<Item("", 0, f), Item("", 0, g), Item(op, t, <<>>)>> :
        op \in PcRelative, t \in 1..4, f \in Fillers, g \in SecondFillers}

ProgramInputs == {Input("program", "", "", 0, 0, 0, 0, body) : body \in Bodies}

\* Source files given by their lines.  A file input is a record of the
\* shape of the other inputs: op is the family of the file, mode and v
\* tell the files of a family apart, body is the sequence of the lines.
File(op, mode, v, body) == Input("file", op, mode, 0, 0, 0, v, body)

\* ".ORIG x3000", a .STRINGZ line with the text between the quotes, ".END"
StringzTexts ==
    {Str(<<"H", "i">>),
     Str(<<"a", " ", "b">>),
     Str(<<"x">>) \o BACKSLASH \o Str(<<"t", "y">>),
     Str(<<"a", ",", "b">>),
     Str(<<"a", ";", "b">>),
     Str(<<"a", " ", " ", "b">>)}

StringzFiles ==
    {File("stringz", "", 0,
          <<Str(<<".", "O", "R", "I", "G", " ", "x", "3", "0", "0", "0">>),
            Str(<<".", "S", "T", "R", "I", "N", "G", "Z", " ">>) \o QUOTE \o text \o QUOTE,
            Str(<<".", "E", "N", "D">>)>>) : text \in StringzTexts}

\* the text between the quotes of the .STRINGZ line of such a file
StringzText(input) == SubSeq(input.body[2], 11, Len(input.body[2]) - 1)

\* ".ORIG x3000", "ADD R0, R0, #1", ".END", and what follows the .END
Tails ==
    {<<>>,
     <<Str(<<";", " ", "t", "h", "e", " ", "e", "n", "d">>)>>,
     <<Str(<<"H", "A", "L", "T">>)>>,
     <<Str(<<"L", "9", ":", " ", ".", "F", "I", "L", "L", " ", "x", "1">>)>>,
     <<Str(<<"L", "9", ":">>)>>,
     <<Str(<<"t", "h", "e", "s", "e", " ", "l", "i", "n", "e", "s", " ", "a", "r", "e", " ", "n", "o", "t", "e", "s">>)>>}

EndFiles ==
    {File("end", "", Len(tail),
          <<Str(<<".", "O", "R", "I", "G", " ", "x", "3", "0", "0", "0">>),
            Str(<<"A", "D", "D", " ", "R", "0", ",", " ", "R", "0", ",", " ", "#", "1">>),
            Str(<<".", "E", "N", "D">>)>> \o tail) : tail \in Tails}

\* files with no .ORIG before the first word, or with two .ORIG
OrigFiles ==
    {File("orig", "", 1,
          <<Str(<<"A", "D", "D", " ", "R", "0", ",", " ", "R", "0", ",", " ", "#", "1">>),
            Str(<<".", "E", "N", "D">>)>>),
     File("orig", "", 2,
          <<Str(<<"A", "D", "D", " ", "R", "0", ",", " ", "R", "0", ",", " ", "#", "1">>),
            Str(<<".", "O", "R", "I", "G", " ", "x", "3", "0", "0", "0">>),
            Str(<<"H", "A", "L", "T">>),
            Str(<<".", "E", "N", "D">>)>>),
     File("orig", "", 3,
          <<Str(<<".", "O", "R", "I", "G", " ", "x", "3", "0", "0", "0">>),
            Str(<<"A", "D", "D", " ", "R", "0", ",", " ", "R", "0", ",", " ", "#", "1">>),
            Str(<<".", "O", "R", "I", "G", " ", "x", "4", "0", "0", "0">>),
            Str(<<"H", "A", "L", "T">>),
            Str(<<".", "E", "N", "D">>)>>),
     File("orig", "", 4,
          <<Str(<<".", "O", "R", "I", "G", " ", "x", "3", "0", "0", "0">>),
            Str(<<".", "O", "R", "I", "G", " ", "x", "3", "1", "0", "0">>),
            Str(<<"H", "A", "L", "T">>),
            Str(<<".", "E", "N", "D">>)>>)}

\* files with a label defined twice (v = 1) and files whose labels all
\* differ, some by letter case only (v = 0)
LabelFiles ==
    {File("labels", "a", 1,
          <<Str(<<".", "O", "R", "I", "G", " ", "x", "3", "0", "0", "0">>),
            Str(<<"L", "1", ":", " ", "A", "D", "D", " ", "R", "0", ",", " ", "R", "0", ",", " ", "#", "1">>),
            Str(<<"L", "1", ":", " ", "H", "A", "L", "T">>),
            Str(<<".", "E", "N", "D">>)>>),
     File("labels", "b", 1,
          <<Str(<<".", "O", "R", "I", "G", " ", "x", "3", "0", "0", "0">>),
            Str(<<"L", "1", ":">>),
            Str(<<"H", "A", "L", "T">>),
            Str(<<"L", "1", ":">>),
            Str(<<".", "E", "N", "D">>)>>),
     File("labels", "c", 1,
          <<Str(<<".", "O", "R", "I", "G", " ", "x", "3", "0", "0", "0">>),
            Str(<<"A", ":", " ", ".", "F", "I", "L", "L", " ", "#", "1">>),
            Str(<<"B", ":", " ", ".", "F", "I", "L", "L", " ", "#", "2">>),
            Str(<<"A", ":", " ", ".", "F", "I", "L", "L", " ", "#", "3">>),
            Str(<<".", "E", "N", "D">>)>>),
     File("labels", "d", 0,
          <<Str(<<".", "O", "R", "I", "G", " ", "x", "3", "0", "0", "0">>),
            Str(<<"l", "o", "o", "p", ":", " ", "A", "D", "D", " ", "R", "0", ",", " ", "R", "0", ",", " ", "#", "1">>),
            Str(<<"L", "O", "O", "P", ":", " ", "B", "R", "n", "z", "p", " ", "l", "o", "o", "p">>),
            Str(<<"L", "o", "o", "p", ":", " ", "H", "A", "L", "T">>),
            Str(<<".", "E", "N", "D">>)>>),
     File("labels", "e", 0,
          <<Str(<<".", "O", "R", "I", "G", " ", "x", "3", "0", "0", "0">>),
            Str(<<"L", "1", ":", " ", "A", "D", "D", " ", "R", "0", ",", " ", "R", "0", ",", " ", "#", "1">>),
            Str(<<"L", "2", ":", " ", "H", "A", "L", "T">>),
            Str(<<".", "E", "N", "D">>)>>)}

\* the string output program as the specification writes it (mode "spec"),
\* and with a colon after the label MSG (mode "colon")
HelloFiles ==
    {File("hello", "spec", 0,
          <<Str(<<"L", "E", "A", " ", "R", "0", ",", " ", "M", "S", "G">>),
            Str(<<"P", "U", "T", "S">>),
            Str(<<"H", "A", "L", "T">>),
            Str(<<"M", "S", "G", " ", ".", "S", "T", "R", "I", "N", "G", "Z", " ">>) \o QUOTE \o Str(<<"H", "i">>) \o QUOTE>>),
     File("hello", "colon", 0,
          <<Str(<<"L", "E", "A", " ", "R", "0", ",", " ", "M", "S", "G">>),
            Str(<<"P", "U", "T", "S">>),
            Str(<<"H", "A", "L", "T">>),
            Str(<<"M", "S", "G", ":", " ", ".", "S", "T", "R", "I", "N", "G", "Z", " ">>) \o QUOTE \o Str(<<"H", "i">>) \o QUOTE>>)}

FileInputs == StringzFiles \cup EndFiles \cup OrigFiles \cup LabelFiles \cup HelloFiles

\* A branch mnemonic with the letters of the mask v (n = 4, z = 2, p = 1),
\* written "BRnz", "brnz" or "BRNZ"
BrText(mask, style) ==
    LET shift == IF style = "BRNZP" THEN 0 ELSE 32
        br == IF style = "brnzp" THEN <<98, 114>> ELSE <<66, 82>>
    IN  br \o (IF mask >= 4 THEN <<78 + shift>> ELSE <<>>)
           \o (IF (mask % 4) >= 2 THEN <<90 + shift>> ELSE <<>>)
           \o (IF (mask % 2) = 1 THEN <<80 + shift>> ELSE <<>>)

BrInputs ==
    {Input("br", "", style, 0, 0, 0, mask, BrText(mask, style)) :
        mask \in 1..7, style \in {"BRnzp", "brnzp", "BRNZP"}}

AsmInputs ==
    SignExtendInputs \cup InstructionInputs \cup ProgramInputs
        \cup FileInputs \cup BrInputs

\* the text of a number, of a register, of a mnemonic
RECURSIVE NatText(_, _)
NatText(n, base) ==
    LET d == n % base
        c == IF d < 10 THEN 48 + d ELSE 55 + d
    IN  IF n < base THEN <<c>> ELSE NatText(n \div base, base) \o <<c>>

Dec(n) == IF n < 0 THEN <<45>> \o NatText(0 - n, 10) ELSE NatText(n, 10)

Imm(v) == <<35>> \o Dec(v)

Hex(v) == <<120>> \o NatText(v, 16)

Reg(r) == <<82, 48 + r>>

Mnemonic(op) ==
    CASE op = "ADD" -> Str(<<"A", "D", "D">>)
      [] op = "AND" -> Str(<<"A", "N", "D">>)
      [] op = "NOT" -> Str(<<"N", "O", "T">>)
      [] op = "LDR" -> Str(<<"L", "D", "R">>)
      [] op = "STR" -> Str(<<"S", "T", "R">>)
      [] op = "LD" -> Str(<<"L", "D">>)
      [] op = "ST" -> Str(<<"S", "T">>)
      [] op = "LDI" -> Str(<<"L", "D", "I">>)
      [] op = "STI" -> Str(<<"S", "T", "I">>)
      [] op = "LEA" -> Str(<<"L", "E", "A">>)
      [] op = "BR" -> Str(<<"B", "R">>)
      [] op = "BRnzp" -> Str(<<"B", "R", "n", "z", "p">>)
      [] op = "JSR" -> Str(<<"J", "S", "R">>)
      [] op = "JSRR" -> Str(<<"J", "S", "R", "R">>)
      [] op = "JMP" -> Str(<<"J", "M", "P">>)
      [] op = "TRAP" -> Str(<<"T", "R", "A", "P">>)

\* the line of an instruction input, as a programmer writes it
Source(input) ==
    LET m == Mnemonic(input.op) \o <<32>>
        c == <<44, 32>>
        n == IF input.mode = "hex" THEN Hex(input.v) ELSE Imm(input.v)
    IN  IF input.op \in {"ADD", "AND"}
        THEN m \o Reg(input.r1) \o c \o Reg(input.r2) \o c
               \o (IF input.mode = "reg" THEN Reg(input.r3) ELSE n)
        ELSE IF input.op = "NOT" THEN m \o Reg(input.r1) \o c \o Reg(input.r2)
        ELSE IF input.op \in {"LDR", "STR"}
        THEN m \o Reg(input.r1) \o c \o Reg(input.r2) \o c \o n
        ELSE IF input.op \in {"LD", "ST", "LDI", "STI", "LEA"}
        THEN m \o Reg(input.r1) \o c \o n
        ELSE IF input.op \in {"JMP", "JSRR"} THEN m \o Reg(input.r2)
        ELSE m \o n

\* the label of body line t (L4: the label that stands alone after the body)
Label(t) == <<76, 48 + t>>

\* ".ORIG x3000", the three body lines "Lt: ...", "L4:", ".END"
ProgramText(input) ==
    LET body(t) ==
            LET item == input.body[t]
            IN  Label(t) \o <<58, 32>> \o
                (IF item.op = "" THEN item.text
                 ELSE IF item.op \in {"BRnzp", "JSR"}
                 THEN Mnemonic(item.op) \o <<32>> \o Label(item.t)
                 ELSE Mnemonic(item.op) \o <<32>> \o Reg(t) \o <<44, 32>>
                          \o Label(item.t))
    IN  <<Str(<<".", "O", "R", "I", "G", " ", "x", "3", "0", "0", "0">>),
          body(1), body(2), <<9>> \o body(3), <<>>,
          Label(4) \o <<58>>,
          Str(<<".", "E", "N", "D">>)>>

\* the line of the body line t and of the label Lt in ProgramText
LineOf(t) == IF t = 4 THEN 6 ELSE t + 1

\* a machine whose registers R0..R7 hold eight different addresses and whose
\* memory cells around them and around PC hold their own address, with the
\* word at PC
ProbeReg(r) == 12300 + 40 * r

Probe(word) ==
    [NewVM EXCEPT
        !.reg = [r \in 0..(R_COUNT - 1) |->
                    IF r < 8 THEN ProbeReg(r) ELSE NewVM.reg[r]],
        !.memory = [a \in 12000..12700 |-> IF a = 12288 THEN word ELSE a]]

InitAsm ==
    /\ vm = NewVM
    /\ threads = EmptyBag
    /\ last = [op |-> "__init__", ret |-> "None", instr |-> -1, at |-> -1,
               after_stop |-> -1]
    /\ gui = [at |-> "idle", output |-> <<>>]
    /\ asm \in {Fresh(input) : input \in AsmInputs}

\* both sign_extend functions on the same arguments
sign_extend_call ==
    /\ asm.at = "init" /\ asm.input.kind = "sign_extend"
    /\ asm' = [asm EXCEPT
                  !.at = "called",
                  !.ret = Ok(asm_sign_extend(asm.input.v, asm.input.r1)),
                  !.ret_vm = sign_extend(asm.input.v, asm.input.r1)]
    /\ UNCHANGED <<vm, threads, last, gui>>

assemble_instruction_call ==
    /\ asm.at = "init" /\ asm.input.kind = "instruction"
    /\ asm' = [asm EXCEPT
                  !.at = "called",
                  !.ret = assemble_instruction(asm.self,
                                               tokenize_line(Source(asm.input)))]
    /\ UNCHANGED <<vm, threads, last, gui>>

\* the word assembled, executed by step() on the probe machine
vm_decode ==
    /\ asm.at = "called" /\ asm.input.kind = "instruction"
    /\ asm.ret.exc = "None" /\ asm.input.op # "TRAP"
    /\ vm' = step(Probe(asm.ret.val)).vm
    /\ asm' = [asm EXCEPT !.at = "decoded"]
    /\ UNCHANGED <<threads, last, gui>>

\* assemble_file, up to the first line of first_pass
assemble_file ==
    /\ asm.at = "init" /\ asm.input.kind \in {"program", "file"}
    /\ asm' = [asm EXCEPT !.at = "first_pass",
                          !.lines = IF asm.input.kind = "program"
                                    THEN ProgramText(asm.input)
                                    ELSE asm.input.body,
                          !.self.pc = asm.self.origin]
    /\ UNCHANGED <<vm, threads, last, gui>>

\* one line of first_pass
first_pass ==
    /\ asm.at = "first_pass" /\ asm.i < Len(asm.lines)
    /\ LET r == first_pass_line(asm.self, asm.i + 1, asm.lines[asm.i + 1])
       IN  asm' = [asm EXCEPT !.self = r.self,
                              !.i = @ + 1,
                              !.lc1 = Append(@, asm.self.pc),
                              !.exc = r.exc,
                              !.at = IF r.exc = "None" THEN @ ELSE "exit"]
    /\ UNCHANGED <<vm, threads, last, gui>>

\* the end of first_pass and the first two statements of second_pass
second_pass_begin ==
    /\ asm.at = "first_pass" /\ asm.i = Len(asm.lines)
    /\ asm' = [asm EXCEPT !.at = "second_pass", !.i = 0,
                          !.self.pc = asm.self.origin,
                          !.self.memory = <<>>]
    /\ UNCHANGED <<vm, threads, last, gui>>

\* one line of second_pass
second_pass ==
    /\ asm.at = "second_pass" /\ asm.i < Len(asm.lines)
    /\ LET r == second_pass_line(asm.self, asm.i + 1, asm.lines[asm.i + 1])
       IN  asm' = [asm EXCEPT !.self = r.self,
                              !.i = @ + 1,
                              !.lc2 = Append(@, asm.self.pc),
                              !.base = Append(@, Len(asm.self.memory)),
                              !.exc = r.exc,
                              !.at = IF r.exc = "None" THEN @ ELSE "exit"]
    /\ UNCHANGED <<vm, threads, last, gui>>

\* struct.pack('>H', ...) raises struct.error outside 0..65535
write_obj_file ==
    /\ asm.at = "second_pass" /\ asm.i = Len(asm.lines)
    /\ asm' = IF asm.self.origin \in 0..65535
              THEN [asm EXCEPT !.at = "written",
                               !.obj = packH(asm.self.origin)
                                           \o pack_words(asm.self.memory)]
              ELSE [asm EXCEPT !.at = "exit", !.exc = "struct.error"]
    /\ UNCHANGED <<vm, threads, last, gui>>

\* a branch to the label L1, five words ahead, given to both assemblers:
\* second_pass of assemble.py and the second loop of lc3_assembler.py, each
\* with L1 in its table and the instruction at x3000
br_call ==
    /\ asm.at = "init" /\ asm.input.kind = "br"
    /\ LET line == asm.input.body \o <<32>> \o Label(1)
           labels == Label(1) :> 12293
           self == [asm.self EXCEPT !.symbol_table = labels, !.pc = 12288]
       IN  asm' = [asm EXCEPT
                      !.at = "called",
                      !.ret = assemble_instruction(self, tokenize_line(line)),
                      !.ret_lc3 = assemble_encode(<<asm.input.body, Label(1)>>,
                                                   labels, 12288)]
    /\ UNCHANGED <<vm, threads, last, gui>>

\* the object file of the string output program, loaded in a machine
load_obj ==
    /\ asm.at = "written" /\ asm.input.op = "hello"
    /\ vm' = load_program(vm, asm.obj).vm
    /\ asm' = [asm EXCEPT !.at = "loaded"]
    /\ UNCHANGED <<threads, last, gui>>

\* the loaded program run: one step of the machine
run_obj ==
    /\ asm.at = "loaded"
    /\ ~vm.halted /\ ~vm.wait_for_input
    /\ InWindow(vm.reg[R_PC])
    /\ vm' = step(vm).vm
    /\ UNCHANGED <<threads, last, gui, asm>>

NextAsm ==
    \/ sign_extend_call
    \/ assemble_instruction_call
    \/ vm_decode
    \/ assemble_file
    \/ first_pass
    \/ second_pass_begin
    \/ second_pass
    \/ write_obj_file
    \/ br_call
    \/ load_obj
    \/ run_obj

SpecAsm == InitAsm /\ [][NextAsm]_vars

\* the word of the 16-bit sign extension of the n-bit value x
SignExtension(x, n) == IF x >= 2 ^ (n - 1) THEN x + 65536 - (2 ^ n) ELSE x

\* C26: each of the two sign_extend functions, for a width n of 5, 6, 9 or
\* 11 and an n-bit value x, returns a word of 0..0xFFFF: x with the bits
\* 15..n set when bit n-1 of x is set, and x otherwise.
C26_Original ==
    (asm.at = "called" /\ asm.input.kind = "sign_extend")
        => /\ asm.ret_vm = SignExtension(asm.input.v, asm.input.r1)
           /\ asm.ret.val = SignExtension(asm.input.v, asm.input.r1)

\* what holds of the two: the machine's function returns that word, and the
\* assembler's returns it when bit n-1 is clear
C26_MachineOnly ==
    (asm.at = "called" /\ asm.input.kind = "sign_extend")
        => /\ asm.ret_vm = SignExtension(asm.input.v, asm.input.r1)
           /\ asm.input.v < 2 ^ (asm.input.r1 - 1) => asm.ret.val = asm.input.v

\* the state of the machine after the assembled instruction of the input,
\* given the machine p before it: the operand values are those written in
\* the source line
Decodes(input, p, after) ==
    LET op == input.op
        v == input.v
        pc == Mask16(p.reg[R_PC] + 1)
    IN  IF op = "ADD"
        THEN after.reg[input.r1] =
                 Mask16(p.reg[input.r2]
                          + (IF input.mode = "reg" THEN p.reg[input.r3] ELSE v))
        ELSE IF op = "AND"
        THEN after.reg[input.r1] =
                 BitAnd(p.reg[input.r2],
                        IF input.mode = "reg" THEN p.reg[input.r3] ELSE Mask16(v))
        ELSE IF op = "NOT" THEN after.reg[input.r1] = Not16(p.reg[input.r2])
        ELSE IF op = "LDR"
        THEN after.reg[input.r1] = Mem(p.memory, Mask16(p.reg[input.r2] + v))
        ELSE IF op = "STR"
        THEN Mem(after.memory, Mask16(p.reg[input.r2] + v)) = p.reg[input.r1]
        ELSE IF op = "LD"
        THEN after.reg[input.r1] = Mem(p.memory, Mask16(pc + v))
        ELSE IF op = "LDI"
        THEN after.reg[input.r1] = Mem(p.memory, Mem(p.memory, Mask16(pc + v)))
        ELSE IF op = "LEA" THEN after.reg[input.r1] = Mask16(pc + v)
        ELSE IF op = "ST"
        THEN Mem(after.memory, Mask16(pc + v)) = p.reg[input.r1]
        ELSE IF op = "STI"
        THEN Mem(after.memory, Mem(p.memory, Mask16(pc + v))) = p.reg[input.r1]
        ELSE IF op \in {"BR", "BRnzp"} THEN after.reg[R_PC] = Mask16(pc + v)
        ELSE IF op = "JSR"
        THEN after.reg[R_PC] = Mask16(pc + v) /\ after.reg[R_R7] = pc
        ELSE after.reg[R_PC] = p.reg[input.r2]

\* C27: an instruction that the assembler accepts, executed by the machine,
\* does what its source line says: the machine decodes the signed field
\* (imm5, offset6, PCoffset9, PCoffset11) as the value written, modulo 2^16,
\* and the DR, SR and BaseR fields as the registers written.
C27_RoundTrip ==
    asm.at = "decoded" => Decodes(asm.input, Probe(asm.ret.val), vm)

\* LDR R3, R6, #-32: R3 holds the cell 32 below the address in R6
C27_Witness ==
    /\ asm.at = "decoded" /\ asm.input.op = "LDR" /\ asm.input.v = -32
    /\ asm.ret.val = 26528
    /\ vm.reg[3] = ProbeReg(6) - 32

\* the instruction lines of a source file and where they point: the line of
\* the instruction, the line of the label, the width of the offset field
References(input) ==
    IF input.kind # "program" THEN {} ELSE
    {[line |-> LineOf(t), label |-> LineOf(input.body[t].t),
      bits |-> Width(input.body[t].op)] :
        t \in {u \in 1..3 : input.body[u].op # ""}}

\* C28: in the object of a source file, the offset field of each
\* PC-relative instruction that refers to a label is the address of the
\* first word at or after the label, minus the address after the
\* instruction, reduced to the width of the field; the label may stand
\* before or after the instruction.  The file is assembled whenever that
\* difference fits the field.
C28_LabelOffset ==
    \A ref \in References(asm.input) :
        /\ asm.at = "written"
              => AndMask(asm.self.memory[asm.base[ref.line] + 1], (2 ^ ref.bits) - 1)
                     = (asm.base[ref.label] - (asm.base[ref.line] + 1)) % (2 ^ ref.bits)
        /\ (asm.at = "exit" /\ asm.i = ref.line /\ Len(asm.lc2) = ref.line)
              => ~check_range(asm.lc1[ref.label] - (asm.lc1[ref.line] + 1),
                              ref.bits, TRUE)

\* "L1: .STRINGZ ..." (5 words), "L2: .FILL xFFFF", "L3: LD R3, L1": the
\* offset is -7; and "L1: JSR L4" over .BLKW #260: the offset is 262
C28_Witness ==
    /\ asm.at = "written" /\ asm.input.kind = "program"
    /\ \E ref \in References(asm.input) :
          /\ ref.line = 4 /\ ref.label = 2 /\ asm.input.body[3].op = "LD"
          /\ asm.base[4] = 6
          /\ asm.self.memory[7] = 9728 + 512 - 7

\* C29: an instruction with an immediate, an offset or a TRAP vector is
\* assembled exactly when the value lies in the range of its field: -16..15,
\* -32..31, -256..255, -1024..1023, and 0..255 for the vector.  Any other
\* value ends the assembly with an error and yields no word.
C29_RangeChecked ==
    (asm.at = "called" /\ asm.input.kind = "instruction"
       /\ asm.input.mode \in {"imm", "hex"})
        => LET w == Width(asm.input.op)
               v == asm.input.v
               fits == IF asm.input.op = "TRAP"
                       THEN 0 <= v /\ v <= 255
                       ELSE (0 - (2 ^ (w - 1))) <= v /\ v <= (2 ^ (w - 1)) - 1
           IN  /\ fits <=> asm.ret.exc = "None"
               /\ fits => AndMask(asm.ret.val, (2 ^ w) - 1) = v % (2 ^ w)
               /\ ~fits => asm.ret.exc = "SystemExit"

\* "ADD R2, R5, #16" is refused
C29_Witness ==
    /\ asm.at = "called" /\ asm.input.op = "ADD" /\ asm.input.v = 16
    /\ asm.ret.exc = "SystemExit"

\* C30: for a source file with one .ORIG, on its first line, the location
\* counter of the second pass before each line is that of the first pass
\* before the same line, and in the object the address of each label is the
\* origin plus the number of words emitted before the line of the label.
C30_PassesAgree ==
    (asm.input.kind = "program" /\ asm.at \in {"second_pass", "written"})
        => /\ \A k \in 1..Len(asm.lc2) : asm.lc2[k] = asm.lc1[k]
           /\ asm.at = "written"
                 => \A t \in 1..4 :
                        /\ Label(t) \in DOMAIN asm.self.symbol_table
                        /\ asm.self.symbol_table[Label(t)]
                               = asm.self.origin + asm.base[LineOf(t)]

\* a file with the strings "a\n\\t" (the characters a, newline, backslash,
\* t) and "\tx\" (tab, x and the backslash before the closing quote): L3 is
\* 9 words after the origin
C30_Witness ==
    /\ asm.at = "written"
    /\ Len(asm.lines[2]) = 21 /\ Len(asm.lines[3]) = 19
    /\ asm.self.symbol_table[Label(3)] = 12288 + 9
    /\ asm.lc1[4] = 12297 /\ asm.lc2[4] = 12297
    /\ Len(asm.self.memory) = 10

(***************************************************************************)
(* The machine again (specification SpecVM)                                *)
(***************************************************************************)
\* the BaseR field of an instruction
BaseReg(instr) == BitAnd(Shr(instr, 6), 7)

\* the call l was a vm.step that fetched a JSRR
IsJsrr(l) == Executed(l) /\ Opcode(l.instr) = JSR /\ BitAnd(Shr(l.instr, 11), 1) = 0

\* C37: JSRR BaseR sets PC to the value BaseR held before the instruction
\* and R7 to the address after the JSRR, for every BaseR of R0..R7, R7
\* included.
C37_Original ==
    [][(last'.op = "step" /\ IsJsrr(last'))
          => /\ vm'.reg[R_PC] = vm.reg[BaseReg(last'.instr)]
             /\ vm'.reg[R_R7] = Mask16(last'.at + 1)]_vars

\* what holds of JSRR: R7 is the return address, and PC is the value BaseR
\* held before the instruction when BaseR is not R7
C37_OtherBases ==
    [][(last'.op = "step" /\ IsJsrr(last'))
          => /\ vm'.reg[R_R7] = Mask16(last'.at + 1)
             /\ BaseReg(last'.instr) # R_R7
                   => vm'.reg[R_PC] = vm.reg[BaseReg(last'.instr)]]_vars

\* the call l was a vm.step that fetched ST, STR or STI
IsStore(l) == Executed(l) /\ Opcode(l.instr) \in {ST, STR, STI}

\* where STI reads its pointer
PointerLocation(l) == Mask16(l.at + 1 + sign_extend(BitAnd(l.instr, 511), 9))

\* the effective address of the store l made on the machine v: for STI the
\* pointer that the read of the pointer location returns
StoreAddress(v, l) ==
    IF Opcode(l.instr) = ST THEN PointerLocation(l)
    ELSE IF Opcode(l.instr) = STR
    THEN Mask16(v.reg[BaseReg(l.instr)] + sign_extend(BitAnd(l.instr, 63), 6))
    ELSE Mask16(mem_read(v, PointerLocation(l)).val)

\* the cells that differ between two memories
Changed(m1, m2) ==
    {a \in (DOMAIN m1) \cup (DOMAIN m2) : Mem(m1, a) # Mem(m2, a)}

RegistersKept(v1, v2) ==
    /\ \A r \in R_R0..R_R7 : v2.reg[r] = v1.reg[r]
    /\ v2.reg[R_COND] = v1.reg[R_COND]

\* C38: ST, STR and STI change no general register and not COND, and change
\* memory only at the effective address of the store, whatever the pointer
\* location of STI is, KBSR included.
C38_Original ==
    [][(last'.op = "step" /\ IsStore(last'))
          => /\ RegistersKept(vm, vm')
             /\ Changed(vm.memory, vm'.memory) \subseteq {StoreAddress(vm, last')}]_vars

\* C38 amended: an STI whose pointer location is KBSR may also change the
\* words KBSR and KBDR, as every read of KBSR does, and takes the pending
\* character from the input buffer; no other store touches the input buffer.
C38_StoreFrame ==
    [][(last'.op = "step" /\ IsStore(last'))
          => LET polled == Opcode(last'.instr) = STI
                             /\ PointerLocation(last') = MR_KBSR
             IN  /\ RegistersKept(vm, vm')
                 /\ Changed(vm.memory, vm'.memory) \subseteq
                        ({StoreAddress(vm, last')}
                           \cup (IF polled THEN {MR_KBSR, MR_KBDR} ELSE {}))
                 /\ Mem(vm'.memory, StoreAddress(vm, last'))
                        = Mask16(vm.reg[DestReg(last'.instr)])
                 /\ vm'.input_buffer =
                        IF polled /\ vm.input_buffer # <<>>
                        THEN Tail(vm.input_buffer) ELSE vm.input_buffer]_vars

\* an STI through KBSR with a character pending: KBSR and KBDR are set and
\* the register is stored at x8000, the pointer read
C38_Witness ==
    /\ last.op = "step" /\ IsStore(last) /\ Opcode(last.instr) = STI
    /\ last.at = MR_KBSR - 2
    /\ Mem(vm.memory, MR_KBSR) = 32768 /\ Mem(vm.memory, MR_KBDR) = 65
    /\ vm.input_buffer = <<>>

(***************************************************************************)
(* The debugger with the step of the front end in two parts (specification *)
(* SpecStep).                                                              *)
(*                                                                         *)
(* step_program calls vm.step() on the GUI thread while an engine thread   *)
(* may be calling it too; nothing orders the statements of the two calls.  *)
(* Here the call made by step_program is cut once, between the fetch with  *)
(* the PC increment and the decoding, and an engine thread may take its    *)
(* steps in between; gui.at = "fetched" is the GUI thread at that cut,     *)
(* holding the instruction it fetched.  The other handlers and the engine  *)
(* threads are those of Spec, without the breakpoint edits and the         *)
(* periodic update_display, on two of the images.                          *)
(***************************************************************************)
\* the images this specification loads
ImagesStep == {ProgEcho, ProgPoll}

\* step_program up to the cut: the tests of step_program and of step, the
\* fetch and the PC increment; when step refuses, the handler runs to its end
step_program_fetch ==
    /\ GuiIdle
    /\ ~vm.halted
    /\ InWindow(vm.reg[R_PC])
    /\ LET v == [vm EXCEPT !.step_mode = TRUE]
       IN  IF v.wait_for_input
           THEN /\ vm' = update_output(v)
                /\ gui' = gui
                /\ last' = Call("step_program", "False", -1, -1)
           ELSE LET f == fetch(v)
                IN  /\ vm' = f.vm
                    /\ gui' = [at |-> "fetched", output |-> <<>>,
                               instr |-> f.instr, pc |-> f.at]
                    /\ last' = Call("step_fetch", "None", -1, -1)
    /\ UNCHANGED <<threads, asm>>

\* step_program from the cut on: decode and execute, then update_display
step_program_execute ==
    /\ gui.at = "fetched"
    /\ Len(vm.output_buffer) < MaxOut
    /\ LET r == decode_execute(vm, gui.instr, gui.pc)
       IN  /\ vm' = IF r.ret = "IndexError" THEN r.vm ELSE update_output(r.vm)
           /\ last' = Call("step_program", r.ret, r.instr, r.at)
    /\ gui' = [at |-> "idle", output |-> <<>>]
    /\ UNCHANGED <<threads, asm>>

\* step_program on a halted machine does nothing
step_program_halted ==
    /\ GuiIdle
    /\ vm.halted
    /\ last' = Call("step_program", "None", -1, -1)
    /\ UNCHANGED <<vm, threads, gui, asm>>

NextStep ==
    \/ run_program
    \/ run_thread_while
    \/ run_thread_step
    \/ run_thread_failed
    \/ run_thread_bp
    \/ step_program_fetch
    \/ step_program_execute
    \/ step_program_halted
    \/ stop_program
    \/ reset_program
    \/ \E data \in ImagesStep : open_program(data)
    \/ \E text \in Texts : send_input(text)

SpecStep == Init /\ [][NextStep]_vars

\* C39: halted and wait_for_input are never both true, in any state the
\* debugger reaches by reset, load, run, step, stop, input and breakpoint
\* edits.
C39_Original == ~(vm.halted /\ vm.wait_for_input)

(***************************************************************************)
(* The assembler on source files given by their lines (SpecAsm)            *)
(***************************************************************************)
\* the assembly of the input is over: the object is written or the
\* assembler has left with an error
Over == asm.at \in {"written", "exit"}

\* C31: .STRINGZ emits one word for each decoded character of the text
\* between the quotes and then a zero word; a character that is not part of
\* a backslash escape is taken as it is, commas, semicolons and runs of
\* spaces included.
C31_Original ==
    (asm.input.op = "stringz" /\ Over)
        => /\ asm.at = "written"
           /\ asm.self.memory = stringz_decode(StringzText(asm.input)) \o <<0>>

\* what holds of these files: the words are those of the text as the
\* tokens, joined by one space each, give it back; a text cut by a
\* semicolon is refused
C31_Rejoined ==
    (asm.input.op = "stringz" /\ Over)
        => LET tokens == tokenize_line(asm.input.body[2])
               content == join(Tail(tokens))
           IN  IF startswith(content, QUOTE) /\ endswith(content, QUOTE)
               THEN /\ asm.at = "written"
                    /\ asm.self.memory =
                           stringz_decode(SubSeq(content, 2, Len(content) - 1))
                               \o <<0>>
               ELSE asm.at = "exit"

\* C32: the lines after .END are ignored by both passes: no label, no
\* word, no error, and the object is that of the file without them.
C32_Original ==
    (asm.input.op = "end" /\ Over)
        => /\ asm.at = "written"
           /\ asm.obj = <<48, 0, 16, 33>>
           /\ DOMAIN asm.self.symbol_table = {}

\* C33: a file with no .ORIG before its first word, or with more than one
\* .ORIG, is refused and no object is written.
C33_Original == asm.input.op = "orig" => asm.at # "written"

\* C34: a label defined a second time, in the same letter case, ends the
\* assembly in the first pass with an error: no word is encoded and no
\* object is written.  Labels that differ by letter case only are
\* different labels and are all accepted.
C34_DuplicateLabel ==
    asm.input.op = "labels"
        => IF asm.input.v = 1
           THEN /\ asm.at \notin {"second_pass", "written", "loaded"}
                /\ asm.self.memory = <<>> /\ asm.obj = <<>> /\ asm.lc2 = <<>>
                /\ asm.at = "exit" => asm.exc = "SystemExit"
           ELSE /\ asm.at # "exit"
                /\ (asm.at = "written" /\ asm.input.mode = "d")
                      => /\ DOMAIN asm.self.symbol_table
                               = {Str(<<"l", "o", "o", "p">>), Str(<<"L", "O", "O", "P">>),
                                  Str(<<"L", "o", "o", "p">>)}
                         /\ asm.self.symbol_table[Str(<<"l", "o", "o", "p">>)] = 12288
                         /\ asm.self.symbol_table[Str(<<"L", "O", "O", "P">>)] = 12289
                         /\ asm.self.symbol_table[Str(<<"L", "o", "o", "p">>)] = 12290
                         /\ asm.self.memory[2] = 4094

\* the second "A:" of "A: .FILL #1 / B: .FILL #2 / A: .FILL #3" ends the
\* first pass at line 4, with A and B in the table
C34_Witness ==
    /\ asm.input.op = "labels" /\ asm.input.mode = "c"
    /\ asm.at = "exit" /\ asm.exc = "SystemExit" /\ asm.i = 4
    /\ asm.self.line_number = 4
    /\ DOMAIN asm.self.symbol_table = {<<65>>, <<66>>}
    /\ asm.obj = <<>>

\* the output of a machine that has printed "Hi" and halted
HiHalt == <<chr(72), chr(105), HALT_TEXT>>

RunOver == asm.at = "loaded" /\ (vm.halted \/ ~InWindow(vm.reg[R_PC]))

BranchMask(word) == BitAnd(Shr(word, 9), 7)

\* C36: in both assemblers the letters of a BR mnemonic give the bits 11,
\* 10 and 9 of the word: n is bit 11, z is bit 10, p is bit 9, in any
\* letter case.
C36_Original ==
    (asm.input.kind = "br" /\ asm.at = "called")
        => /\ asm.ret.exc = "None" /\ BranchMask(asm.ret.val) = asm.input.v
           /\ asm.ret_lc3.exc = "None" /\ BranchMask(asm.ret_lc3.val) = asm.input.v

\* what holds: assemble.py gives the mask of the letters, and
\* lc3_assembler.py the mask 000 and the same offset
C36_FirstOnly ==
    (asm.input.kind = "br" /\ asm.at = "called")
        => /\ asm.ret = Ok(Shl(asm.input.v, 9) + 4)
           /\ asm.ret_lc3 = Ok(4)
====
